---- MODULE Spec2Model ----
(***************************************************************************)
(* Local authentication and session integrity of the Settle expense        *)
(* tracker: the credential registry, the HMAC-signed session token, the    *)
(* App component's auth state with its effects, and the Login component.   *)
(*                                                                         *)
(* Strings are sequences of one-character strings, so that split, hex      *)
(* encoding and hex decoding are computed as the code computes them.       *)
(* A storage item that is absent is the empty sequence: the code only      *)
(* tests such items for truthiness, and null and '' are both falsy.        *)
(***************************************************************************)
EXTENDS Integers, Sequences, FiniteSets, Bags, TLC

VARIABLES
  localStorage,  \* the browser's localStorage: users, key, token, per-user data
  auth,          \* App: useState<AuthState>
  expenses,      \* App: useState<Expense[]>
  incomes,       \* App: useState<Income[]>
  settings,      \* App: useState<AppSettings>
  tasks,         \* bag of suspended async functions (awaiting Web Crypto)
  loginView,     \* Login: view, email, error; onLogin records the user handed to onLogin
  probe,         \* direct calls of the pure functions, one call at a time
  settingsView   \* SettingsView: error, chosen import file, and the files downloaded

vars == <<localStorage, auth, expenses, incomes, settings, tasks, loginView, probe,
         settingsView>>

(***************************************************************************)
(* Bounds                                                                  *)
(***************************************************************************)
MaxTasks == 1      \* async functions in flight at once
MaxItems == 1      \* expenses a user records
MaxCalls == 2      \* direct signSession / verifySession calls in flight at once
MaxRecorded == 3   \* expenses entered through the AddExpense form

(***************************************************************************)
(* Values                                                                  *)
(***************************************************************************)
Null == [null |-> TRUE]
Thrown == [thrown |-> TRUE]

EmailPlain == <<"a", "@", "b">>
EmailUpper == <<"A", "@", "b">>
EmailDotted == <<"a", "@", "b", ".", "c">>
EmailOther == <<"z", "@", "y">>
SignupEmails == {EmailPlain, EmailUpper, EmailDotted}
LoginEmails == {EmailUpper, EmailOther}

PassOne == <<"A", "a", "1", "!", "a", "a", "a", "a", "a", "a", "a", "a">>
PassTwo == <<"B", "b", "2", "?", "b", "b", "b", "b", "b", "b", "b", "b">>
PassWeak == <<"a", "b", "c">>
SignupPasswords == {PassOne, PassWeak}
LoginPasswords == {PassOne, PassTwo}

Local == <<"l", "o", "c", "a", "l">>

\* raw HMAC key material that generateKey may produce (64 bytes in the browser)
Keys == {<<11>>, <<171>>}

(***************************************************************************)
(* Characters                                                              *)
(***************************************************************************)
HexDigits == <<"0", "1", "2", "3", "4", "5", "6", "7", "8", "9", "a", "b", "c", "d", "e", "f">>
UpperHex == <<"0", "1", "2", "3", "4", "5", "6", "7", "8", "9", "A", "B", "C", "D", "E", "F">>

\* the printable ASCII characters in code order, from the space (32) on;
\* the grave accent (96), which the model never uses, is written U+0060
Ascii ==
  <<" ", "!", "\"", "#", "$", "%", "&", "'", "(", ")", "*", "+",
   ",", "-", ".", "/", "0", "1", "2", "3", "4", "5", "6", "7",
   "8", "9", ":", ";", "<", "=", ">", "?", "@", "A", "B", "C",
   "D", "E", "F", "G", "H", "I", "J", "K", "L", "M", "N", "O",
   "P", "Q", "R", "S", "T", "U", "V", "W", "X", "Y", "Z", "[",
   "\\", "]", "^", "_", "U+0060", "a", "b", "c", "d", "e", "f", "g",
   "h", "i", "j", "k", "l", "m", "n", "o", "p", "q", "r", "s",
   "t", "u", "v", "w", "x", "y", "z", "{", "|", "}", "~">>

\* TextEncoder.encode on the characters the model uses (all ASCII)
CharCode(c) ==
  IF c = "\n" THEN 10 ELSE 31 + (CHOOSE k \in 1..Len(Ascii) : Ascii[k] = c)

Utf8(s) == [i \in 1..Len(s) |-> CharCode(s[i])]

IsUpper(c) == CharCode(c) >= 65 /\ CharCode(c) <= 90
IsLower(c) == CharCode(c) >= 97 /\ CharCode(c) <= 122
IsDigit(c) == CharCode(c) >= 48 /\ CharCode(c) <= 57
IsSpecial(c) == c \in {"!", "@", "#", "$", "%", "^", "&", "*", "(", ")", ",", ".", "?", "\"", ":", "{", "}", "|", "<", ">"}

LowerOf(c) ==
  CASE c = "A" -> "a" [] c = "B" -> "b" [] c = "C" -> "c" [] c = "D" -> "d"
    [] c = "E" -> "e" [] c = "F" -> "f" [] c = "P" -> "p" [] c = "X" -> "x"
    [] OTHER -> c

toLowerCase(s) == [i \in 1..Len(s) |-> LowerOf(s[i])]

IsHexDigit(c) == \E k \in 1..16 : HexDigits[k] = c \/ UpperHex[k] = c
HexVal(c) == (CHOOSE k \in 1..16 : HexDigits[k] = c \/ UpperHex[k] = c) - 1

(***************************************************************************)
(* bufToHex / hexToBuf                                                     *)
(***************************************************************************)
bufToHex(buffer) ==
  [i \in 1..(2 * Len(buffer)) |->
     IF i % 2 = 1 THEN HexDigits[(buffer[(i + 1) \div 2] \div 16) + 1]
                  ELSE HexDigits[(buffer[i \div 2] % 16) + 1]]

\* parseInt(s, 16) on a string of one or two characters: leading white space
\* is skipped, a sign is read, a "0x" prefix is dropped, then the longest
\* prefix of hex digits (either case) is the value; no digit gives NaN.
parseInt16(s) ==
  LET NaN == [nan |-> TRUE, val |-> 0]
      Num(v) == [nan |-> FALSE, val |-> v]
      one(c) == IF IsHexDigit(c) THEN Num(HexVal(c)) ELSE NaN
  IN IF Len(s) = 0 THEN NaN
     ELSE IF Len(s) = 1 THEN one(s[1])
     ELSE IF s[1] = " " THEN one(s[2])
     ELSE IF s[1] = "+" THEN one(s[2])
     ELSE IF s[1] = "-" THEN (IF IsHexDigit(s[2]) THEN Num(0 - HexVal(s[2])) ELSE NaN)
     ELSE IF s[1] = "0" /\ s[2] \in {"x", "X"} THEN NaN
     ELSE IF IsHexDigit(s[1])
          THEN (IF IsHexDigit(s[2]) THEN Num(16 * HexVal(s[1]) + HexVal(s[2]))
                                    ELSE Num(HexVal(s[1])))
     ELSE NaN

\* storing a number in a Uint8Array element: NaN becomes 0, others wrap mod 256
ToUint8(n) == IF n.nan THEN 0 ELSE n.val % 256

\* new Uint8Array(hex.length / 2) truncates a fractional length, and the
\* loop's write past the end (the odd trailing character) is ignored.
hexToBuf(hex) ==
  [k \in 1..(Len(hex) \div 2) |-> ToUint8(parseInt16(SubSeq(hex, 2 * k - 1, 2 * k)))]

(***************************************************************************)
(* String.prototype.split and array destructuring                          *)
(***************************************************************************)
IndexOf(s, c) ==
  IF \E i \in 1..Len(s) : s[i] = c
  THEN CHOOSE i \in 1..Len(s) : s[i] = c /\ \A j \in 1..(i - 1) : s[j] # c
  ELSE 0

RECURSIVE split(_, _)
split(s, sep) ==
  LET i == IndexOf(s, sep)
  IN IF i = 0 THEN <<s>>
     ELSE <<SubSeq(s, 1, i - 1)>> \o split(SubSeq(s, i + 1, Len(s)), sep)

\* const [a, b] = parts: a missing element is undefined, which like '' is falsy
At(parts, k) == IF k <= Len(parts) THEN parts[k] ELSE <<>>

(***************************************************************************)
(* JSON.stringify / JSON.parse of the user object {id, email, authProvider}*)
(* (ids and e-mail addresses hold no quote or backslash, so no escapes)    *)
(***************************************************************************)
JsonOpenId == <<"{", "\"", "i", "d", "\"", ":", "\"">>
JsonEmail == <<"\"", ",", "\"", "e", "m", "a", "i", "l", "\"", ":", "\"">>
JsonProvider == <<"\"", ",", "\"", "a", "u", "t", "h", "P", "r", "o", "v", "i", "d", "e", "r", "\"", ":", "\"">>
JsonClose == <<"\"", "}">>

JSONstringify(u) ==
  JsonOpenId \o u.id \o JsonEmail \o u.email \o JsonProvider \o u.authProvider \o JsonClose

StartsWith(s, p) == Len(s) >= Len(p) /\ SubSeq(s, 1, Len(p)) = p
Drop(s, n) == SubSeq(s, n + 1, Len(s))

\* JSON.parse: the object grammar the app writes, a number, or a SyntaxError
JSONparse(text) ==
  LET a == Drop(text, Len(JsonOpenId))
      i == IndexOf(a, "\"")
      b == Drop(a, i - 1)
      c == Drop(b, Len(JsonEmail))
      j == IndexOf(c, "\"")
      d == Drop(c, j - 1)
      e == Drop(d, Len(JsonProvider))
      k == IndexOf(e, "\"")
      f == Drop(e, k - 1)
  IN IF StartsWith(text, JsonOpenId) /\ i > 0 /\ StartsWith(b, JsonEmail) /\ j > 0
        /\ StartsWith(d, JsonProvider) /\ k > 0 /\ f = JsonClose
     THEN [id |-> SubSeq(a, 1, i - 1), email |-> SubSeq(c, 1, j - 1),
           authProvider |-> SubSeq(e, 1, k - 1)]
     ELSE IF Len(text) > 0 /\ (\A n \in 1..Len(text) : IsDigit(text[n]))
             /\ (Len(text) = 1 \/ text[1] # "0")
     THEN [number |-> text]
     ELSE Thrown

(***************************************************************************)
(* JSON.stringify / JSON.parse of data: a number is [num |-> n], a string  *)
(* [str |-> characters], a boolean [bool |-> b], an array [arr |-> items],  *)
(* an object [obj |-> members] with members [key, value] in insertion      *)
(* order, and null is Null. Numbers are the non-negative integers.          *)
(***************************************************************************)
JNum(n) == [num |-> n]
JStr(s) == [str |-> s]
JBool(b) == [bool |-> b]
JArr(items) == [arr |-> items]
JObj(members) == [obj |-> members]
Member(key, value) == [key |-> key, value |-> value]

Is(v, type) == type \in DOMAIN v

RECURSIVE Digits(_)
Digits(n) == IF n < 10 THEN <<HexDigits[n + 1]>>
             ELSE Digits(n \div 10) \o <<HexDigits[(n % 10) + 1]>>

\* JSON.stringify writing string characters without escaping them
Escape_None(s) == s

RECURSIVE Escape(_)
Escape(s) ==
  IF s = <<>> THEN <<>>
  ELSE (IF Head(s) \in {"\"", "\\"} THEN <<"\\", Head(s)>>
        ELSE IF Head(s) = "\n" THEN <<"\\", "n">>
        ELSE <<Head(s)>>) \o Escape(Tail(s))

Quote(s) == <<"\"">> \o Escape(s) \o <<"\"">>

RECURSIVE Join(_, _)
Join(parts, sep) ==
  IF parts = <<>> THEN <<>>
  ELSE IF Len(parts) = 1 THEN parts[1]
  ELSE parts[1] \o sep \o Join(Tail(parts), sep)

\* JSON.stringify(value, null, gap) at the indentation `indent`; the empty
\* gap is JSON.stringify(value)
RECURSIVE stringify(_, _, _)
stringify(v, gap, indent) ==
  LET inner == indent \o gap
      sep == IF gap = <<>> THEN <<",">> ELSE <<",", "\n">> \o inner
      open(b) == IF gap = <<>> THEN <<b>> ELSE <<b, "\n">> \o inner
      close(b) == IF gap = <<>> THEN <<b>> ELSE <<"\n">> \o indent \o <<b>>
      colon == IF gap = <<>> THEN <<":">> ELSE <<":", " ">>
  IN IF v = Null THEN <<"n", "u", "l", "l">>
     ELSE IF Is(v, "num") THEN Digits(v.num)
     ELSE IF Is(v, "str") THEN Quote(v.str)
     ELSE IF Is(v, "bool")
          THEN (IF v.bool THEN <<"t", "r", "u", "e">> ELSE <<"f", "a", "l", "s", "e">>)
     ELSE IF Is(v, "arr")
          THEN (IF v.arr = <<>> THEN <<"[", "]">>
                ELSE open("[")
                       \o Join([i \in 1..Len(v.arr) |-> stringify(v.arr[i], gap, inner)], sep)
                       \o close("]"))
     ELSE IF v.obj = <<>> THEN <<"{", "}">>
     ELSE open("{")
            \o Join([i \in 1..Len(v.obj) |->
                       Quote(v.obj[i].key) \o colon \o stringify(v.obj[i].value, gap, inner)],
                    sep)
            \o close("}")

JSONstringifyValue(v) == stringify(v, <<>>, <<>>)
JSONstringifyPretty(v) == stringify(v, <<" ", " ">>, <<>>)

DigitChars == {"0", "1", "2", "3", "4", "5", "6", "7", "8", "9"}
IsWhitespace(c) == c \in {" ", "\n"}

RECURSIVE skipWhitespace(_, _)
skipWhitespace(text, i) ==
  IF i <= Len(text) /\ IsWhitespace(text[i]) THEN skipWhitespace(text, i + 1) ELSE i

NoParse == [ok |-> FALSE]
Parsed(v, next) == [ok |-> TRUE, value |-> v, next |-> next]
LiteralAt(text, i, word) == i + Len(word) - 1 <= Len(text) /\ SubSeq(text, i, i + Len(word) - 1) = word

RECURSIVE parseString(_, _, _)
parseString(text, i, acc) ==
  IF i > Len(text) \/ text[i] = "\n" THEN NoParse
  ELSE IF text[i] = "\"" THEN Parsed(acc, i + 1)
  ELSE IF text[i] = "\\"
       THEN (IF i + 1 > Len(text) THEN NoParse
             ELSE IF text[i + 1] \in {"\"", "\\", "/"}
                  THEN parseString(text, i + 2, Append(acc, text[i + 1]))
             ELSE IF text[i + 1] = "n" THEN parseString(text, i + 2, Append(acc, "\n"))
             ELSE NoParse)
  ELSE parseString(text, i + 1, Append(acc, text[i]))

RECURSIVE parseDigits(_, _, _)
parseDigits(text, i, acc) ==
  IF i <= Len(text) /\ text[i] \in DigitChars
  THEN parseDigits(text, i + 1, 10 * acc + HexVal(text[i]))
  ELSE Parsed(JNum(acc), i)

RECURSIVE parseValue(_, _)
RECURSIVE parseElements(_, _, _)
RECURSIVE parseMembers(_, _, _)

parseValue(text, start) ==
  LET i == skipWhitespace(text, start)
      j == skipWhitespace(text, i + 1)
      string == parseString(text, i + 1, <<>>)
  IN IF i > Len(text) THEN NoParse
     ELSE IF text[i] = "\""
          THEN (IF string.ok THEN Parsed(JStr(string.value), string.next) ELSE NoParse)
     ELSE IF text[i] = "0" THEN Parsed(JNum(0), i + 1)
     ELSE IF text[i] \in DigitChars THEN parseDigits(text, i, 0)
     ELSE IF text[i] = "["
          THEN (IF j <= Len(text) /\ text[j] = "]" THEN Parsed(JArr(<<>>), j + 1)
                ELSE parseElements(text, j, <<>>))
     ELSE IF text[i] = "{"
          THEN (IF j <= Len(text) /\ text[j] = "}" THEN Parsed(JObj(<<>>), j + 1)
                ELSE parseMembers(text, j, <<>>))
     ELSE IF LiteralAt(text, i, <<"t", "r", "u", "e">>) THEN Parsed(JBool(TRUE), i + 4)
     ELSE IF LiteralAt(text, i, <<"f", "a", "l", "s", "e">>) THEN Parsed(JBool(FALSE), i + 5)
     ELSE IF LiteralAt(text, i, <<"n", "u", "l", "l">>) THEN Parsed(Null, i + 4)
     ELSE NoParse

parseElements(text, i, acc) ==
  LET r == parseValue(text, i)
      j == skipWhitespace(text, r.next)
  IN IF ~r.ok THEN NoParse
     ELSE IF j > Len(text) THEN NoParse
     ELSE IF text[j] = "," THEN parseElements(text, j + 1, Append(acc, r.value))
     ELSE IF text[j] = "]" THEN Parsed(JArr(Append(acc, r.value)), j + 1)
     ELSE NoParse

parseMembers(text, i, acc) ==
  LET k == skipWhitespace(text, i)
      key == parseString(text, k + 1, <<>>)
      c == skipWhitespace(text, key.next)
      r == parseValue(text, c + 1)
      j == skipWhitespace(text, r.next)
  IN IF k > Len(text) \/ text[k] # "\"" THEN NoParse
     ELSE IF ~key.ok THEN NoParse
     ELSE IF c > Len(text) \/ text[c] # ":" THEN NoParse
     ELSE IF ~r.ok THEN NoParse
     ELSE IF j > Len(text) THEN NoParse
     ELSE IF text[j] = "," THEN parseMembers(text, j + 1, Append(acc, Member(key.value, r.value)))
     ELSE IF text[j] = "}" THEN Parsed(JObj(Append(acc, Member(key.value, r.value))), j + 1)
     ELSE NoParse

\* the SyntaxError that JSON.parse throws
SyntaxError == [name |-> "SyntaxError", thrownBy |-> "JSON.parse"]

JSONparseValue(text) ==
  LET r == parseValue(text, 1)
  IN IF r.ok /\ skipWhitespace(text, r.next) > Len(text)
     THEN [value |-> r.value] ELSE [error |-> SyntaxError]

\* value.key of a parsed value: undefined (here Null) when there is no such member
Get(v, key) ==
  IF v # Null /\ Is(v, "obj") /\ \E i \in 1..Len(v.obj) : v.obj[i].key = key
  THEN v.obj[CHOOSE i \in 1..Len(v.obj) :
               v.obj[i].key = key /\ \A j \in (i + 1)..Len(v.obj) : v.obj[j].key # key].value
  ELSE Null

\* ToBoolean: null, 0, '' and false are falsy; arrays and objects are truthy
Truthy(v) ==
  IF v = Null THEN FALSE
  ELSE IF Is(v, "num") THEN v.num # 0
  ELSE IF Is(v, "str") THEN v.str # <<>>
  ELSE IF Is(v, "bool") THEN v.bool
  ELSE TRUE

(***************************************************************************)
(* Web Crypto HMAC-SHA-256 as an ideal MAC: the tag determines key and     *)
(* message, and verification is equality with the recomputed tag.          *)
(***************************************************************************)
subtleSign(key, data) == key \o data
subtleVerify(key, signature, data) == signature = subtleSign(key, data)

(***************************************************************************)
(* signSession / verifySession once getSystemHmacKey has produced the key  *)
(***************************************************************************)
signSessionWith(key, userData) ==
  LET dataStr == JSONstringify(userData)
  IN dataStr \o <<".">> \o bufToHex(subtleSign(key, Utf8(dataStr)))

\* const [dataStr, signatureHex] = signedSession.split('.')
tokenFields(signedSession) ==
  LET parts == split(signedSession, ".")
  IN [dataStr |-> At(parts, 1), signatureHex |-> At(parts, 2)]

\* FALSE when verifySession returns null before it asks for the key
reachesKey(signedSession) ==
  tokenFields(signedSession).dataStr # <<>> /\ tokenFields(signedSession).signatureHex # <<>>

\* verifySession returning the payload without looking at isValid
verifyBody_Unchecked(key, signedSession) ==
  JSONparse(tokenFields(signedSession).dataStr)

\* the try block of verifySession after the key is in hand
verifyBody(key, signedSession) ==
  LET f == tokenFields(signedSession)
      isValid == subtleVerify(key, hexToBuf(f.signatureHex), Utf8(f.dataStr))
  IN IF isValid THEN JSONparse(f.dataStr) ELSE Null

\* verifySession trusting any payload that parses, signed or not
verifySessionWith_Trusting(key, signedSession) ==
  LET r == JSONparse(tokenFields(signedSession).dataStr)
  IN IF r = Thrown THEN Null ELSE r

verifySessionWith(key, signedSession) ==
  IF ~reachesKey(signedSession) THEN Null
  ELSE LET r == verifyBody(key, signedSession)
       IN IF r = Thrown THEN Null ELSE r

(***************************************************************************)
(* Key derivation and the credential registry                              *)
(***************************************************************************)
SALT_LENGTH == 16
SaltByteValues == {7}
Salts == {[i \in 1..SALT_LENGTH |-> b] : b \in SaltByteValues}

\* PBKDF2 as an ideal KDF: deterministic, and injective in (password, salt)
pbkdf2(password, salt) == salt \o Utf8(password)
deriveKey(password, salt) == bufToHex(pbkdf2(password, salt))

\* hashPassword with the salt that crypto.getRandomValues produced
hashPasswordWith(password, salt) == bufToHex(salt) \o <<":">> \o deriveKey(password, salt)

\* users.find(u => u.email === email.toLowerCase())
findUser(users, email) ==
  IF \E i \in 1..Len(users) : users[i].email = toLowerCase(email)
  THEN users[CHOOSE i \in 1..Len(users) :
               /\ users[i].email = toLowerCase(email)
               /\ \A j \in 1..(i - 1) : users[j].email # toLowerCase(email)]
  ELSE Null

\* verifyCredentials up to its await: the record whose hash will be checked
credentialLookup(users, email) ==
  LET user == findUser(users, email)
  IN IF user = Null THEN Null
     ELSE IF user.passwordHash = <<>> THEN Null
     ELSE LET parts == split(user.passwordHash, ":")
          IN IF At(parts, 1) = <<>> \/ At(parts, 2) = <<>> THEN Null ELSE user

\* verifyCredentials returning the record found, whatever the password
credentialCheck_AnyPassword(user, passwordPlain) == user

\* verifyCredentials after the await: derivedHash === storedHash ? user : null
credentialCheck(user, passwordPlain) ==
  IF user = Null THEN Null
  ELSE LET parts == split(user.passwordHash, ":")
           salt == hexToBuf(At(parts, 1))
           derivedHash == deriveKey(passwordPlain, salt)
       IN IF derivedHash = At(parts, 2) THEN user ELSE Null

verifyCredentials(users, email, passwordPlain) ==
  credentialCheck(credentialLookup(users, email), passwordPlain)

\* isEmailRegistered comparing the e-mail as typed
isEmailRegistered_CaseSensitive(users, email) ==
  \E i \in 1..Len(users) : users[i].email = email

isEmailRegistered(users, email) ==
  \E i \in 1..Len(users) : users[i].email = toLowerCase(email)

\* crypto.randomUUID(): an id no record carries yet
randomUUID(users) == <<HexDigits[Len(users) + 2]>>

\* registerUserLocally putting the new record first
registerUserLocally_Prepending(users, email, passwordHash) ==
  <<[id |-> randomUUID(users), email |-> toLowerCase(email),
     passwordHash |-> passwordHash]>> \o users

\* createdAt (Date.now()) is left out: nothing reads it
registerUserLocally(users, email, passwordHash) ==
  Append(users, [id |-> randomUUID(users), email |-> toLowerCase(email),
                 passwordHash |-> passwordHash])

(***************************************************************************)
(* validatePasswordStrength                                                *)
(***************************************************************************)
ErrLength == "At least 12 characters"
ErrUpper == "One uppercase letter"
ErrLower == "One lowercase letter"
ErrDigit == "One number"
ErrSpecial == "One special character"

Has(password, Class(_)) == \E i \in 1..Len(password) : Class(password[i])

\* validatePasswordStrength accepting every password
validatePasswordStrength_Lenient(password) ==
  [score |-> 4, isValid |-> TRUE, errors |-> <<>>]

\* validatePasswordStrength reporting the number of satisfied rules as score
validatePasswordStrength_Unclamped(password) ==
  LET met == << Len(password) >= 12, Has(password, IsUpper), Has(password, IsLower),
                Has(password, IsDigit), Has(password, IsSpecial) >>
      errs == << ErrLength, ErrUpper, ErrLower, ErrDigit, ErrSpecial >>
      unmet == SelectSeq(<<1, 2, 3, 4, 5>>, LAMBDA k : ~met[k])
  IN [score |-> 5 - Len(unmet), isValid |-> Len(unmet) = 0,
      errors |-> [i \in 1..Len(unmet) |-> errs[unmet[i]]]]

validatePasswordStrength(password) ==
  LET rules == << <<Len(password) >= 12, ErrLength>>,
                  <<Has(password, IsUpper), ErrUpper>>,
                  <<Has(password, IsLower), ErrLower>>,
                  <<Has(password, IsDigit), ErrDigit>>,
                  <<Has(password, IsSpecial), ErrSpecial>> >>
      unmet == SelectSeq(rules, LAMBDA r : ~r[1])
      score == Len(rules) - Len(unmet)
      finalScore == IF score - 1 < 4 THEN score - 1 ELSE 4
  IN [score |-> IF finalScore > 0 THEN finalScore ELSE 0,
      isValid |-> Len(unmet) = 0,
      errors |-> [i \in 1..Len(unmet) |-> unmet[i][2]]]

(***************************************************************************)
(* React state of App and the storage layout                               *)
(***************************************************************************)
DefaultSettings ==
  [isMLPredictionsEnabled |-> TRUE, isAIFeaturesEnabled |-> TRUE,
   hasAcceptedAIDisclosure |-> FALSE, currency |-> "KSh", monthlyBudget |-> 50000]

InitialAuth == [user |-> Null, isAuthenticated |-> FALSE, isLoading |-> TRUE]

NoError == "null"
MsgSignIn == "We couldn't sign you in. Please check your details."
MsgMismatch == "Passwords do not match."
MsgRegistered == "This email is already registered. Please log in."
MsgWeak == "Please choose a stronger password."
InitialLogin == [view |-> "LOGIN", email |-> <<>>, error |-> NoError, onLogin |-> Null]

\* SettingsView: the error shown, the content of the file chosen for import
\* (none: the empty sequence), isProcessing, the file the browser saved last
\* (downloadFile), which outlives the component, in onImport the data
\* handed to onImport by the last import, and in onClearData whether
\* onClearData was the last thing the component called
NoFile == [name |-> "none", content |-> <<>>, exported |-> Null, password |-> <<>>]
InitialSettingsView ==
  [error |-> NoError, importFileContent |-> <<>>, isProcessing |-> FALSE,
   downloaded |-> NoFile, onImport |-> Null, onClearData |-> FALSE]
Unmounted(view) == [InitialSettingsView EXCEPT !.downloaded = view.downloaded]

\* localStorage.getItem / setItem on the keys settle_<what>_<id>
Stored(f, id) == id \in DOMAIN f
Put(f, id, v) == [x \in (DOMAIN f) \cup {id} |-> IF x = id THEN v ELSE f[x]]
Nothing == [x \in {} |-> <<>>]

SampleExpenses == {[id |-> "e1", amount |-> 250]}

\* getSystemHmacKey up to its first await: the imported stored key, or no
\* key yet (the empty sequence) when one has to be generated
keyAtCall(ls) == IF ls.key # <<>> THEN hexToBuf(ls.key) ELSE <<>>

persistTask(ls, user) == [op |-> "persist", user |-> user, key |-> keyAtCall(ls)]

loadTask(ls, savedSigned) ==
  [op |-> "loadSession", signed |-> savedSigned,
   key |-> IF reachesKey(savedSigned) THEN keyAtCall(ls) ELSE <<>>]

\* { ...settings, ...loaded, isAIFeaturesEnabled: loaded.isAIFeaturesEnabled ?? true,
\*   hasAcceptedAIDisclosure: loaded.hasAcceptedAIDisclosure ?? false }
mergeSettings(current, loaded) ==
  [f \in (DOMAIN current) \cup (DOMAIN loaded) |->
     IF f \in DOMAIN loaded THEN loaded[f] ELSE current[f]]

\* the commit without the re-render that the load effect's setState calls cause
commitUser_Stale(ls, user, exps, incs, sets) ==
  LET id == user.id
  IN [ls |-> [ls EXCEPT !.expenses = Put(@, id, exps),
                        !.incomes = Put(@, id, incs),
                        !.settings = Put(@, id, sets)],
      expenses |-> exps, incomes |-> incs, settings |-> sets]

\* The commit that follows setAuth with a user: the load effect reads the
\* user's keys, the three persist effects of the same commit write the
\* state of this render, and the re-render caused by the load effect's
\* setExpenses / setIncomes / setSettings runs the persist effects again.
commitUser(ls, user, exps, incs, sets) ==
  LET id == user.id
      loadedExpenses == IF Stored(ls.expenses, id) THEN ls.expenses[id] ELSE <<>>
      loadedIncomes == IF Stored(ls.incomes, id) THEN ls.incomes[id] ELSE <<>>
      loadedSettings == IF Stored(ls.settings, id)
                        THEN mergeSettings(sets, ls.settings[id]) ELSE sets
      first == [ls EXCEPT !.expenses = Put(@, id, exps),
                          !.incomes = Put(@, id, incs),
                          !.settings = Put(@, id, sets)]
      second == [first EXCEPT !.expenses = Put(@, id, loadedExpenses),
                              !.incomes = Put(@, id, loadedIncomes),
                              !.settings = Put(@, id, loadedSettings)]
  IN [ls |-> second, expenses |-> loadedExpenses, incomes |-> loadedIncomes,
      settings |-> loadedSettings]

\* setAuth({user, isAuthenticated: true, isLoading: false}) and its commit,
\* with the other suspended functions `rest`
Authenticate(user, rest) ==
  LET c == commitUser(localStorage, user, expenses, incomes, settings)
  IN /\ auth' = [user |-> user, isAuthenticated |-> TRUE, isLoading |-> FALSE]
     /\ localStorage' = c.ls
     /\ expenses' = c.expenses
     /\ incomes' = c.incomes
     /\ settings' = c.settings
     /\ tasks' = rest (+) SetToBag({persistTask(localStorage, user)})

Pending(t) == BagIn(t, tasks)
Without(t) == tasks (-) SetToBag({t})
Room == BagCardinality(tasks) < MaxTasks
LoginShown == ~auth.isLoading /\ ~auth.isAuthenticated

\* SettingsView is unmounted: its suspended handlers run on, but their
\* setState calls no longer have an effect
Detached(bag) ==
  BagOfAll(LAMBDA t : IF t.op \in {"export", "import"} THEN [t EXCEPT !.detached = TRUE] ELSE t,
           bag)
LoginIdle == \A t \in BagToSet(tasks) : t.op \notin {"login", "signup"}

(***************************************************************************)
(* App                                                                     *)
(***************************************************************************)
Init ==
  /\ localStorage = [users |-> <<>>, key |-> <<>>, token |-> <<>>,
                     expenses |-> Nothing, incomes |-> Nothing, settings |-> Nothing]
  /\ auth = InitialAuth
  /\ expenses = <<>>
  /\ incomes = <<>>
  /\ settings = DefaultSettings
  /\ tasks = EmptyBag
  /\ loginView = InitialLogin
  /\ probe = [op |-> "none", user |-> Null, token |-> <<>>, signKey |-> <<>>,
              input |-> <<>>, verifyKey |-> <<>>, result |-> Null]
  /\ settingsView = InitialSettingsView

\* The page is loaded (or reloaded): state is constructed afresh, whatever
\* was suspended is gone, and the mount effects run in order: loadSession
\* reads the token (and verifySession the key) before the auth effect, which
\* sees auth.user = null, removes the token.
AppLoad ==
  LET savedSigned == localStorage.token
  IN /\ auth' = [InitialAuth EXCEPT !.isLoading = (savedSigned # <<>>)]
     /\ tasks' = IF savedSigned # <<>>
                 THEN SetToBag({loadTask(localStorage, savedSigned)}) ELSE EmptyBag
     /\ localStorage' = [localStorage EXCEPT !.token = <<>>]
     /\ expenses' = <<>>
     /\ incomes' = <<>>
     /\ settings' = DefaultSettings
     /\ loginView' = InitialLogin
     /\ settingsView' = Unmounted(settingsView)
     /\ UNCHANGED probe

\* getSystemHmacKey found no stored key: generateKey, exportKey, setItem
GenerateKey(t) ==
  /\ Pending(t)
  /\ t.op \in {"persist", "loadSession", "sign", "verify"}
  /\ t.key = <<>>
  /\ t.op \in {"loadSession", "verify"} => reachesKey(t.signed)
  /\ \E key \in Keys :
       /\ localStorage' = [localStorage EXCEPT !.key = bufToHex(key)]
       /\ tasks' = Without(t) (+) SetToBag({[t EXCEPT !.key = key]})
  /\ UNCHANGED <<auth, expenses, incomes, settings, loginView, probe, settingsView>>

\* loadSession returning without setAuth when verifySession gave null
LoadSessionFinish_Silent(t) ==
  /\ Pending(t)
  /\ t.op = "loadSession"
  /\ t.key # <<>> \/ ~reachesKey(t.signed)
  /\ LET verifiedUser == verifySessionWith(t.key, t.signed)
     IN IF verifiedUser # Null
        THEN Authenticate(verifiedUser, Without(t))
        ELSE /\ tasks' = Without(t)
             /\ UNCHANGED <<localStorage, auth, expenses, incomes, settings>>
  /\ UNCHANGED <<loginView, probe, settingsView>>

\* loadSession after `await verifySession(savedSigned)`
LoadSessionFinish(t) ==
  /\ Pending(t)
  /\ t.op = "loadSession"
  /\ t.key # <<>> \/ ~reachesKey(t.signed)
  /\ LET verifiedUser == verifySessionWith(t.key, t.signed)
     IN IF verifiedUser # Null
        THEN Authenticate(verifiedUser, Without(t))
        ELSE /\ auth' = [auth EXCEPT !.isLoading = FALSE]
             /\ tasks' = Without(t)
             /\ UNCHANGED <<localStorage, expenses, incomes, settings>>
  /\ UNCHANGED <<loginView, probe, settingsView>>

\* persist() after `await signSession(auth.user)`
PersistFinish(t) ==
  /\ Pending(t)
  /\ t.op = "persist"
  /\ t.key # <<>>
  /\ localStorage' = [localStorage EXCEPT !.token = signSessionWith(t.key, t.user)]
  /\ tasks' = Without(t)
  /\ UNCHANGED <<auth, expenses, incomes, settings, loginView, probe, settingsView>>

\* handleLogout, and the auth effect's else branch; Login is mounted anew and
\* SettingsView is unmounted
handleLogout ==
  /\ auth.isAuthenticated
  /\ auth' = [user |-> Null, isAuthenticated |-> FALSE, isLoading |-> FALSE]
  /\ localStorage' = [localStorage EXCEPT !.token = <<>>]
  /\ loginView' = InitialLogin
  /\ settingsView' = Unmounted(settingsView)
  /\ tasks' = Detached(tasks)
  /\ UNCHANGED <<expenses, incomes, settings, probe>>

addExpense(expense) ==
  /\ auth.isAuthenticated
  /\ Len(expenses) < MaxItems
  /\ expenses' = <<expense>> \o expenses
  /\ localStorage' = [localStorage EXCEPT !.expenses = Put(@, auth.user.id, expenses')]
  /\ UNCHANGED <<auth, incomes, settings, tasks, loginView, probe, settingsView>>

\* the disclosure dialog is shown while hasAcceptedAIDisclosure is false
handleOptOutAI ==
  /\ auth.isAuthenticated
  /\ ~settings.hasAcceptedAIDisclosure
  /\ settings' = [settings EXCEPT !.isAIFeaturesEnabled = FALSE,
                                  !.hasAcceptedAIDisclosure = TRUE]
  /\ localStorage' = [localStorage EXCEPT !.settings = Put(@, auth.user.id, settings')]
  /\ UNCHANGED <<auth, expenses, incomes, tasks, loginView, probe, settingsView>>

(***************************************************************************)
(* Login                                                                   *)
(***************************************************************************)
\* Login.handleLogin up to `await verifyCredentials(email, password)`
LoginSubmit(email, password) ==
  /\ LoginShown /\ LoginIdle /\ Room
  /\ tasks' = tasks (+) SetToBag({[op |-> "login", email |-> email, password |-> password,
                                  found |-> credentialLookup(localStorage.users, email)]})
  /\ loginView' = [view |-> "LOGIN", email |-> email, error |-> NoError, onLogin |-> Null]
  /\ UNCHANGED <<localStorage, auth, expenses, incomes, settings, probe, settingsView>>

\* handleLogin telling an unknown e-mail from a wrong password
loginOutcome_Leaky(t, user) ==
  IF user # Null THEN [ok |-> TRUE, error |-> NoError]
  ELSE IF t.found = Null THEN [ok |-> FALSE, error |-> "No account with this email."]
  ELSE [ok |-> FALSE, error |-> MsgSignIn]

\* what Login.handleLogin does with the value verifyCredentials resolved to
loginOutcome(t, user) ==
  IF user # Null THEN [ok |-> TRUE, error |-> NoError] ELSE [ok |-> FALSE, error |-> MsgSignIn]

\* Login.handleLogin after the await; onLogin is App.handleLogin
LoginFinish(t) ==
  /\ Pending(t)
  /\ t.op = "login"
  /\ LET user == credentialCheck(t.found, t.password)
         outcome == loginOutcome(t, user)
     IN IF outcome.ok
        THEN /\ Authenticate([id |-> user.id, email |-> user.email,
                              authProvider |-> Local], Without(t))
             /\ loginView' = [loginView EXCEPT !.onLogin = [id |-> user.id,
                                                            email |-> user.email]]
        ELSE /\ loginView' = [loginView EXCEPT !.error = outcome.error]
             /\ tasks' = Without(t)
             /\ UNCHANGED <<localStorage, auth, expenses, incomes, settings>>
  /\ UNCHANGED <<probe, settingsView>>

\* Login.handleSignup up to `await hashPassword(password)`
SignupSubmit(email, password, confirmPassword) ==
  /\ LoginShown /\ LoginIdle /\ Room
  /\ LET view(error) == [view |-> "SIGNUP", email |-> email, error |-> error,
                         onLogin |-> Null]
     IN IF password # confirmPassword
        THEN loginView' = view(MsgMismatch) /\ UNCHANGED tasks
        ELSE IF isEmailRegistered(localStorage.users, email)
        THEN loginView' = view(MsgRegistered) /\ UNCHANGED tasks
        ELSE IF ~validatePasswordStrength(password).isValid
        THEN loginView' = view(MsgWeak) /\ UNCHANGED tasks
        ELSE /\ loginView' = view(NoError)
             /\ \E salt \in Salts :
                  tasks' = tasks (+) SetToBag({[op |-> "signup", email |-> email,
                                                password |-> password, salt |-> salt]})
  /\ UNCHANGED <<localStorage, auth, expenses, incomes, settings, probe, settingsView>>

\* Login.handleSignup after the await: registerUserLocally, then onLogin
SignupFinish(t) ==
  /\ Pending(t)
  /\ t.op = "signup"
  /\ LET users == registerUserLocally(localStorage.users, t.email,
                                      hashPasswordWith(t.password, t.salt))
         user == [id |-> users[Len(users)].id, email |-> t.email, authProvider |-> Local]
         c == commitUser([localStorage EXCEPT !.users = users], user,
                         expenses, incomes, settings)
     IN /\ auth' = [user |-> user, isAuthenticated |-> TRUE, isLoading |-> FALSE]
        /\ localStorage' = c.ls
        /\ expenses' = c.expenses
        /\ incomes' = c.incomes
        /\ settings' = c.settings
        /\ tasks' = Without(t) (+) SetToBag({persistTask(localStorage, user)})
        /\ loginView' = [loginView EXCEPT !.onLogin = [id |-> user.id, email |-> t.email]]
  /\ UNCHANGED <<probe, settingsView>>

Next ==
  \/ \E t \in BagToSet(tasks) : GenerateKey(t)
  \/ \E t \in BagToSet(tasks) : LoadSessionFinish(t)
  \/ \E t \in BagToSet(tasks) : PersistFinish(t)
  \/ handleLogout
  \/ \E expense \in SampleExpenses : addExpense(expense)
  \/ handleOptOutAI
  \/ \E email \in LoginEmails, password \in LoginPasswords : LoginSubmit(email, password)
  \/ \E t \in BagToSet(tasks) : LoginFinish(t)
  \/ \E email \in SignupEmails, password \in SignupPasswords,
        confirmPassword \in SignupPasswords :
       SignupSubmit(email, password, confirmPassword)
  \/ \E t \in BagToSet(tasks) : SignupFinish(t)
  \/ AppLoad

Spec == Init /\ [][Next]_vars

(***************************************************************************)
(* signSession and verifySession called directly, one call at a time       *)
(***************************************************************************)
ProbeUsers ==
  {[id |-> <<"1">>, email |-> email, authProvider |-> Local] :
     email \in {EmailPlain, EmailDotted}}

TamperChars == {"0", "A", "g", ".", " "}

Replace(t, i, c) == [t EXCEPT ![i] = c]
Insert(t, i, c) == SubSeq(t, 1, i - 1) \o <<c>> \o SubSeq(t, i, Len(t))

\* the strings that differ from t by one changed, inserted or appended character
Altered(t) ==
  ({Replace(t, i, c) : i \in 1..Len(t), c \in TamperChars}
     \cup {Insert(t, i, c) : i \in 1..(Len(t) + 1), c \in TamperChars}) \ {t}

\* strings that no signSession call returned
Malformed ==
  {<<>>, <<"a", "b">>, <<".">>, <<"a", ".">>, <<".", "0", "0">>,
   <<"a", ".", "g", "g">>, <<"a", ".", "0">>}
  \cup {<<"x">> \o <<".">> \o bufToHex(subtleSign(key, Utf8(<<"x">>))) : key \in Keys}

ProbeSign(userData) ==
  /\ probe.op \in {"none", "verify"}
  /\ \E key \in Keys :
       /\ localStorage.key # <<>> => key = hexToBuf(localStorage.key)
       /\ localStorage' = [localStorage EXCEPT !.key = bufToHex(key)]
       /\ probe' = [op |-> "sign", user |-> userData,
                    token |-> signSessionWith(key, userData), signKey |-> key,
                    input |-> <<>>, verifyKey |-> <<>>, result |-> Null]
  /\ UNCHANGED <<auth, expenses, incomes, settings, tasks, loginView, settingsView>>

\* settle_system_key is removed from storage
ProbeKeyLoss ==
  /\ probe.op = "sign"
  /\ localStorage.key # <<>>
  /\ localStorage' = [localStorage EXCEPT !.key = <<>>]
  /\ UNCHANGED <<auth, expenses, incomes, settings, tasks, loginView, probe, settingsView>>

ProbeVerify(signedSession) ==
  /\ probe.op = "sign"
  /\ IF reachesKey(signedSession)
     THEN \E key \in Keys :
            /\ localStorage.key # <<>> => key = hexToBuf(localStorage.key)
            /\ localStorage' = [localStorage EXCEPT !.key = bufToHex(key)]
            /\ probe' = [probe EXCEPT !.op = "verify", !.input = signedSession,
                                      !.verifyKey = key,
                                      !.result = verifySessionWith(key, signedSession)]
     ELSE /\ probe' = [probe EXCEPT !.op = "verify", !.input = signedSession,
                                    !.result = verifySessionWith(<<>>, signedSession)]
          /\ UNCHANGED localStorage
  /\ UNCHANGED <<auth, expenses, incomes, settings, tasks, loginView, settingsView>>

SessionNext ==
  \/ \E userData \in ProbeUsers : ProbeSign(userData)
  \/ ProbeKeyLoss
  \/ /\ probe.op = "sign"
     /\ \E signedSession \in {probe.token} \cup Altered(probe.token) \cup Malformed :
          ProbeVerify(signedSession)

SessionSpec == Init /\ [][SessionNext]_vars

Verified == probe.op = "verify"
SameKey == probe.verifyKey = probe.signKey

\* C1: verifySession(signSession(userData)) returns userData when the
\* signing key is the same for both calls
C1_RoundTrip ==
  (Verified /\ probe.input = probe.token /\ SameKey) => probe.result = probe.user

\* C3: with the signing key unchanged, verifySession returns null for every
\* string that differs from a token signSession returned
C3_TamperDetected ==
  (Verified /\ probe.input # probe.token /\ SameKey) => probe.result = Null

\* C5: a token signed under one key is rejected when the key in effect at
\* verification is another key, also one generated during verification
C5_KeyLossRejects ==
  (Verified /\ probe.input = probe.token /\ ~SameKey) => probe.result = Null

C5_Witness ==
  /\ Verified /\ probe.input = probe.token /\ ~SameKey
  /\ probe.result = Null
  /\ verifySessionWith(probe.signKey, probe.token) = probe.user

\* C7: verifySession resolves to null, and never throws, for every input
\* that is empty, has no '.', has a non-hex or odd-length signature, or a
\* payload that is not JSON
C7_FailsClosed ==
  LET f == tokenFields(probe.input)
      hex == f.signatureHex
  IN Verified =>
       /\ probe.result # Thrown
       /\ ( \/ probe.input = <<>>
            \/ IndexOf(probe.input, ".") = 0
            \/ Len(hex) % 2 = 1
            \/ \E i \in 1..Len(hex) : ~IsHexDigit(hex[i])
            \/ JSONparse(f.dataStr) = Thrown ) => probe.result = Null

(***************************************************************************)
(* The app with a token put into storage by something other than the app   *)
(***************************************************************************)
ForgedUser == [id |-> <<"1">>, email |-> EmailPlain, authProvider |-> Local]

\* an unsigned payload, a payload with a made-up signature, and tokens
\* signed with each key the browser could hold
Forged ==
  {JSONstringify(ForgedUser), JSONstringify(ForgedUser) \o <<".", "0", "0">>}
    \cup {signSessionWith(key, ForgedUser) : key \in Keys}

StorageEdited ==
  /\ \E signedSession \in Forged :
       localStorage' = [localStorage EXCEPT !.token = signedSession]
  /\ UNCHANGED <<auth, expenses, incomes, settings, tasks, loginView, probe, settingsView>>

TamperNext == Next \/ StorageEdited

TamperSpec == Init /\ [][TamperNext]_vars

(***************************************************************************)
(* Properties of the app                                                   *)
(***************************************************************************)
Users == localStorage.users
TaskSet == BagToSet(tasks)

\* the user objects the app signs for the records of the registry
SessionUsers ==
  {[id |-> Users[i].id, email |-> email, authProvider |-> Local] :
     i \in 1..Len(Users), email \in SignupEmails \cup {toLowerCase(e) : e \in SignupEmails}}

StoredOr(f, id, default) == IF Stored(f, id) THEN f[id] ELSE default

\* C2: a load that finds a token the app signed for a user, and the key it
\* was signed with, ends authenticated as that user with the user's
\* expenses, incomes and settings read from the keys of that id
C2_SessionRestored ==
  [][\A t \in TaskSet : \A u \in SessionUsers :
       (t.op = "loadSession" /\ t.key # <<>> /\ t.signed = signSessionWith(t.key, u)
          /\ LoadSessionFinish(t))
       => /\ auth'.isAuthenticated
          /\ ~auth'.isLoading
          /\ auth'.user = u
          /\ expenses' = StoredOr(localStorage.expenses, u.id, <<>>)
          /\ incomes' = StoredOr(localStorage.incomes, u.id, <<>>)
          /\ settings' = StoredOr(localStorage.settings, u.id, settings)]_vars

\* C4: while the user is logged out and no persist step is pending, no
\* token is stored under settle_active_session_v2
C4_LogoutDestroysToken ==
  (auth.user = Null /\ ~auth.isLoading /\ \A t \in TaskSet : t.op # "persist")
    => localStorage.token = <<>>

\* the record was created from this password
RegisteredWith(record, password) ==
  \E salt \in Salts : record.passwordHash = hashPasswordWith(password, salt)

Matching(email, password) ==
  {i \in 1..Len(Users) : /\ toLowerCase(Users[i].email) = toLowerCase(email)
                         /\ RegisteredWith(Users[i], password)}

\* C6: the app becomes authenticated only by a login whose credentials match
\* a record, by a signup, or by a stored token whose HMAC verifies under the
\* signing key; the user is then the one the token's payload names
C6_NoUnsignedTrust ==
  [][(auth'.isAuthenticated /\ (~auth.isAuthenticated \/ auth'.user # auth.user))
     => \E t \in TaskSet :
          \/ /\ t.op = "login" /\ LoginFinish(t)
             /\ \E i \in Matching(t.email, t.password) : auth'.user.id = Users[i].id
          \/ /\ t.op = "signup" /\ SignupFinish(t)
          \/ /\ t.op = "loadSession" /\ LoadSessionFinish(t)
             /\ localStorage.key = bufToHex(t.key)
             /\ LET f == tokenFields(t.signed)
                IN /\ hexToBuf(f.signatureHex) = subtleSign(t.key, Utf8(f.dataStr))
                   /\ auth'.user = JSONparse(f.dataStr)]_vars

\* authenticated by loadSession: Login has handed no user to onLogin
C6_Witness ==
  /\ auth.isAuthenticated
  /\ loginView.onLogin = Null
  /\ Len(Users) > 0
  /\ auth.user.id = Users[1].id

\* C8: a login attempt yields the record of a registered user exactly when
\* the e-mail matches ignoring case and the password is the registered one;
\* otherwise no user, and the app stays unauthenticated
C8_LoginCorrect ==
  [][\A t \in TaskSet :
       (t.op = "login" /\ LoginFinish(t))
       => IF Matching(t.email, t.password) # {}
          THEN /\ auth'.isAuthenticated
               /\ \E i \in Matching(t.email, t.password) :
                    /\ auth'.user.id = Users[i].id
                    /\ auth'.user.email = Users[i].email
          ELSE /\ ~auth'.isAuthenticated
               /\ auth' = auth
               /\ loginView'.onLogin = Null]_vars

C8_Witness ==
  /\ auth.isAuthenticated
  /\ loginView.view = "LOGIN"
  /\ loginView.onLogin # Null
  /\ loginView.email = EmailUpper
  /\ auth.user.email = EmailPlain

UniqueEmails ==
  \A i, j \in 1..Len(Users) :
    toLowerCase(Users[i].email) = toLowerCase(Users[j].email) => i = j

\* C9: a signup for an e-mail that is registered, ignoring case, is rejected:
\* it adds no record, starts nothing and does not authenticate; so no two
\* records carry the same lowercase e-mail
C9_RegistrationUnique ==
  /\ []UniqueEmails
  /\ [][\A e \in SignupEmails, p \in SignupPasswords, c \in SignupPasswords :
          (SignupSubmit(e, p, c)
             /\ \E i \in 1..Len(Users) : toLowerCase(Users[i].email) = toLowerCase(e))
          => /\ localStorage' = localStorage
             /\ auth' = auth
             /\ tasks' = tasks
             /\ loginView'.error # NoError]_vars

C9_Witness ==
  /\ loginView.view = "SIGNUP"
  /\ loginView.error = MsgRegistered
  /\ loginView.email = EmailUpper
  /\ Len(Users) = 1
  /\ Users[1].email = EmailPlain

\* C10: a failed login leaves the same outcome whether the e-mail is unknown
\* or the password is wrong: the one message, auth and storage unchanged
C10_UndifferentiatedFailure ==
  [][\A t \in TaskSet :
       (t.op = "login" /\ LoginFinish(t) /\ Matching(t.email, t.password) = {})
       => /\ loginView' = [loginView EXCEPT !.error = MsgSignIn]
          /\ auth' = auth
          /\ localStorage' = localStorage
          /\ tasks' = Without(t)
          /\ UNCHANGED <<expenses, incomes, settings>>]_vars

C10_Witness ==
  /\ loginView.view = "LOGIN"
  /\ loginView.error = MsgSignIn
  /\ isEmailRegistered(Users, loginView.email)
  /\ ~auth.isAuthenticated

(***************************************************************************)
(* The backup cipher: encryptExportData / decryptExportData. Its bufToHex   *)
(* and hexToBuf are the same code as those of the auth module, and its      *)
(* SALT_LENGTH has the same value.                                          *)
(***************************************************************************)
IV_LENGTH == 12
IvByteValues == {10}
IVs == {[i \in 1..IV_LENGTH |-> b] : b \in IvByteValues}

\* TextDecoder.decode on ASCII bytes; any other byte decodes to U+FFFD
CharOf(b) ==
  IF b = 10 THEN "\n" ELSE IF b >= 32 /\ b <= 126 THEN Ascii[b - 31] ELSE "U+FFFD"
TextDecode(bytes) == [i \in 1..Len(bytes) |-> CharOf(bytes[i])]

\* deriveExportKey deriving the key from the salt alone
deriveExportKey_IgnoringPassword(password, salt) == <<Len(salt)>> \o salt

\* PBKDF2 deriveKey as an ideal KDF: injective in (password, salt)
deriveExportKey(password, salt) == <<Len(salt)>> \o salt \o Utf8(password)

\* the OperationError that crypto.subtle.decrypt rejects with
OperationError == [name |-> "OperationError", thrownBy |-> "crypto.subtle.decrypt"]
\* throw new Error("Invalid encrypted format")
InvalidFormat == [name |-> "Invalid encrypted format", thrownBy |-> "decryptExportData"]

\* AES-GCM as an ideal authenticated cipher: a ciphertext opens under
\* (key, iv) exactly when it was sealed under (key, iv), and then to the
\* plaintext sealed. Secrecy is not modelled: the plaintext is carried
\* twice around the key and the iv, so that every change of a byte, every
\* truncation and every other key or iv is rejected.
sealBinding(key, iv) == <<Len(key)>> \o key \o <<Len(iv)>> \o iv
subtleEncrypt(key, iv, plainText) == plainText \o sealBinding(key, iv) \o plainText

subtleDecrypt(key, iv, cipherBuffer) ==
  LET binding == sealBinding(key, iv)
      rest == Len(cipherBuffer) - Len(binding)
      n == rest \div 2
      plainText == SubSeq(cipherBuffer, 1, n)
  IN IF rest >= 0 /\ rest % 2 = 0 /\ cipherBuffer = subtleEncrypt(key, iv, plainText)
     THEN [value |-> plainText] ELSE [error |-> OperationError]

\* encryptExportData with the salt and iv that crypto.getRandomValues produced
encryptExportData(data, password, salt, iv) ==
  LET plainText == Utf8(JSONstringifyValue(data))
      key == deriveExportKey(password, salt)
      cipherBuffer == subtleEncrypt(key, iv, plainText)
  IN bufToHex(salt) \o <<":">> \o bufToHex(iv) \o <<":">> \o bufToHex(cipherBuffer)

\* const [saltHex, ivHex, cipherHex] = encryptedStr.split(':')
blobFields(encryptedStr) ==
  LET parts == split(encryptedStr, ":")
  IN [saltHex |-> At(parts, 1), ivHex |-> At(parts, 2), cipherHex |-> At(parts, 3)]

\* FALSE when decryptExportData throws before it derives the key
derivesKey(encryptedStr) ==
  LET f == blobFields(encryptedStr)
  IN f.saltHex # <<>> /\ f.ivHex # <<>> /\ f.cipherHex # <<>>

\* decryptExportData: [value |-> the payload] when the promise resolves,
\* [error |-> what was thrown] when it rejects
decryptExportData(encryptedStr, password) ==
  LET f == blobFields(encryptedStr)
      salt == hexToBuf(f.saltHex)
      iv == hexToBuf(f.ivHex)
      cipherBuffer == hexToBuf(f.cipherHex)
      key == deriveExportKey(password, salt)
      decrypted == subtleDecrypt(key, iv, cipherBuffer)
  IN IF ~derivesKey(encryptedStr) THEN [error |-> InvalidFormat]
     ELSE IF Is(decrypted, "error") THEN decrypted
     ELSE JSONparseValue(TextDecode(decrypted.value))

(***************************************************************************)
(* encryptExportData and decryptExportData called directly: one export,    *)
(* then one import of the blob, of an altered blob or of another string     *)
(***************************************************************************)
VaultPass == <<"v", "a", "u", "l", "t", "p", "a", "s", "s", "1">>
ShortPass == <<"p">>
BackupPasswords == {VaultPass, ShortPass}

KeyExpenses == <<"e", "x", "p", "e", "n", "s", "e", "s">>
KeyIncomes == <<"i", "n", "c", "o", "m", "e", "s">>
KeySettings == <<"s", "e", "t", "t", "i", "n", "g", "s">>
KeyId == <<"i", "d">>
KeyAmount == <<"a", "m", "o", "u", "n", "t">>

BackupPayloads ==
  {JNum(7), JStr(<<"a", ":", "\"">>), Null,
   JObj(<<Member(KeyExpenses, JArr(<<JObj(<<Member(KeyId, JStr(<<"e", "1">>)),
                                            Member(KeyAmount, JNum(250))>>)>>)),
          Member(KeyIncomes, JArr(<<>>))>>)}

BackupTamperChars == {"0", "A", "g", ":"}

\* the positions of the iv segment and of the ciphertext segment of a blob
SegmentPositions(blob) ==
  LET first == IndexOf(blob, ":")
  IN {i \in (first + 1)..Len(blob) : blob[i] # ":"}

\* a blob with one character of those segments replaced by a different one
Tampered(blob) ==
  {Replace(blob, i, c) : i \in SegmentPositions(blob), c \in BackupTamperChars} \ {blob}

\* a blob whose sealed plaintext is not JSON
NotJson == <<"{", "a">>
ForgedBlob(password) ==
  LET salt == CHOOSE x \in Salts : TRUE
      iv == CHOOSE x \in IVs : TRUE
  IN bufToHex(salt) \o <<":">> \o bufToHex(iv) \o <<":">>
       \o bufToHex(subtleEncrypt(deriveExportKey(password, salt), iv, Utf8(NotJson)))

\* strings with fewer than three fields, with an empty field, or with more
\* than three fields
Misshapen(blob) ==
  {<<>>, <<"0", "7">>, <<"0", "7", ":", "0", "a">>, <<"0", "7", ":", "0", "a", ":">>,
   <<":", "0", "a", ":", "0", "0">>, <<"0", "7", ":", ":", "0", "0">>,
   <<"0", "7", ":", "0", "a", ":", "0", "0", ":", "0", "0">>,
   blob \o <<":">>, blob \o <<":", "0", "0">>}

ProbeEncrypt(data, password, salt, iv) ==
  /\ probe.op = "none"
  /\ probe' = [op |-> "encrypt", data |-> data, password |-> password,
               blob |-> encryptExportData(data, password, salt, iv),
               input |-> <<>>, importPassword |-> <<>>, keyDerived |-> FALSE,
               result |-> Null]
  /\ UNCHANGED <<localStorage, auth, expenses, incomes, settings, tasks, loginView,
                 settingsView>>

ProbeDecrypt(encryptedStr, password) ==
  /\ probe.op = "encrypt"
  /\ probe' = [probe EXCEPT !.op = "decrypt", !.input = encryptedStr,
                            !.importPassword = password,
                            !.keyDerived = derivesKey(encryptedStr),
                            !.result = decryptExportData(encryptedStr, password)]
  /\ UNCHANGED <<localStorage, auth, expenses, incomes, settings, tasks, loginView,
                 settingsView>>

BackupNext ==
  \/ \E data \in BackupPayloads, password \in BackupPasswords, salt \in Salts, iv \in IVs :
       ProbeEncrypt(data, password, salt, iv)
  \/ /\ probe.op = "encrypt"
     /\ \E encryptedStr \in {probe.blob} \cup Tampered(probe.blob) \cup Misshapen(probe.blob)
                              \cup {ForgedBlob(pw) : pw \in BackupPasswords},
           password \in BackupPasswords :
          ProbeDecrypt(encryptedStr, password)

BackupSpec == Init /\ [][BackupNext]_vars

Decrypted == probe.op = "decrypt"
Resolved == Is(probe.result, "value")
FieldCount(encryptedStr) == Len(split(encryptedStr, ":"))

\* C13: decryptExportData(encryptExportData(payload, pw), pw) returns the payload
C13_BackupRoundTrip ==
  (Decrypted /\ probe.input = probe.blob /\ probe.importPassword = probe.password)
    => probe.result = [value |-> probe.data]

C13_Witness ==
  /\ Decrypted /\ probe.input = probe.blob /\ probe.importPassword = probe.password
  /\ probe.result = [value |-> probe.data]
  /\ probe.data # Null /\ Is(probe.data, "obj")

\* C14: a blob with one character of its iv segment or its ciphertext
\* segment replaced by a different character never decrypts to a value
C14_TamperSensitive ==
  (Decrypted /\ probe.input \in Tampered(probe.blob)
     /\ probe.importPassword = probe.password) => ~Resolved

\* C15: a blob decrypted with a password other than the one it was
\* encrypted with never yields a value
C15_WrongPassword ==
  (Decrypted /\ probe.input = probe.blob /\ probe.importPassword # probe.password)
    => ~Resolved

C15_Witness ==
  /\ Decrypted /\ probe.input = probe.blob /\ probe.importPassword # probe.password
  /\ probe.result = [error |-> OperationError]
  /\ decryptExportData(probe.blob, probe.password) = [value |-> probe.data]

\* C16: every input that is not exactly three ':'-separated fields fails
\* with the malformed-format error, before a key is derived
C16_MalformedRejected ==
  (Decrypted /\ FieldCount(probe.input) # 3)
    => (probe.result = [error |-> InvalidFormat] /\ ~probe.keyDerived)

\* C17: every failure of decryptExportData is an error of its own, one of
\* three kinds, never the error of crypto.subtle.decrypt or of JSON.parse
C17_ErrorTaxonomy ==
  (Decrypted /\ ~Resolved) => probe.result.error.thrownBy = "decryptExportData"

(***************************************************************************)
(* SettingsView (export, import, purge) and the data operations of App     *)
(***************************************************************************)
SampleIncomes == {[id |-> "i1", amount |-> 900]}

\* the characters of the strings that records carry
Text(a) ==
  CASE a = "e1" -> <<"e", "1">> [] a = "i1" -> <<"i", "1">> [] a = "KSh" -> <<"K", "S", "h">>
Texts == {"e1", "i1", "KSh"}
FromText(chars) ==
  IF \E a \in Texts : Text(a) = chars THEN CHOOSE a \in Texts : Text(a) = chars ELSE chars

KeyML == <<"i", "s", "M", "L", "P", "r", "e", "d", "i", "c", "t", "i", "o", "n", "s", "E", "n", "a", "b", "l", "e", "d">>
KeyAI == <<"i", "s", "A", "I", "F", "e", "a", "t", "u", "r", "e", "s", "E", "n", "a", "b", "l", "e", "d">>
KeyDisclosure == <<"h", "a", "s", "A", "c", "c", "e", "p", "t", "e", "d", "A", "I", "D", "i", "s", "c", "l", "o", "s", "u", "r", "e">>
KeyCurrency == <<"c", "u", "r", "r", "e", "n", "c", "y">>
KeyBudget == <<"m", "o", "n", "t", "h", "l", "y", "B", "u", "d", "g", "e", "t">>

itemJson(item) == JObj(<<Member(KeyId, JStr(Text(item.id))), Member(KeyAmount, JNum(item.amount))>>)
settingsJson(sets) ==
  JObj(<<Member(KeyML, JBool(sets.isMLPredictionsEnabled)),
         Member(KeyAI, JBool(sets.isAIFeaturesEnabled)),
         Member(KeyDisclosure, JBool(sets.hasAcceptedAIDisclosure)),
         Member(KeyCurrency, JStr(Text(sets.currency))),
         Member(KeyBudget, JNum(sets.monthlyBudget))>>)

\* the object { expenses, incomes, settings } that both exports serialize
exportData(exps, incs, sets) ==
  JObj(<<Member(KeyExpenses, JArr([i \in 1..Len(exps) |-> itemJson(exps[i])])),
         Member(KeyIncomes, JArr([i \in 1..Len(incs) |-> itemJson(incs[i])])),
         Member(KeySettings, settingsJson(sets))>>)

\* a parsed value as the state it becomes
plain(v) ==
  IF v = Null THEN Null
  ELSE IF Is(v, "num") THEN v.num
  ELSE IF Is(v, "str") THEN FromText(v.str)
  ELSE IF Is(v, "bool") THEN v.bool
  ELSE v
itemOf(v) == [id |-> plain(Get(v, KeyId)), amount |-> plain(Get(v, KeyAmount))]
itemsOf(v) == IF Is(v, "arr") THEN [i \in 1..Len(v.arr) |-> itemOf(v.arr[i])] ELSE plain(v)

\* handleImport keeping the settings of the session
spreadSettings_Kept(prev, v) == prev

\* { ...prev, ...data.settings }
spreadSettings(prev, v) ==
  LET name(f) == CASE f = "isMLPredictionsEnabled" -> KeyML
                   [] f = "isAIFeaturesEnabled" -> KeyAI
                   [] f = "hasAcceptedAIDisclosure" -> KeyDisclosure
                   [] f = "currency" -> KeyCurrency
                   [] f = "monthlyBudget" -> KeyBudget
  IN [f \in DOMAIN prev |->
        IF Is(v, "obj") /\ \E i \in 1..Len(v.obj) : v.obj[i].key = name(f)
        THEN plain(Get(v, name(f))) ELSE prev[f]]

PlainName == "settle_backup_plain.json"
VaultName == "settle_backup_encrypted.vault"
MsgShortPassword == "Password must be at least 8 characters."
MsgImportFailed == "Failed to decrypt or parse file. Check your password."

\* a file that no export of the app wrote: a JSON array
ForeignFile == [name |-> "other.json", content |-> <<"[", "]">>]

\* String.prototype.includes
includes(s, c) == \E i \in 1..Len(s) : s[i] = c

\* the three persist effects, after a render in which the data changed
persisted(ls, user, exps, incs, sets) ==
  IF user = Null THEN ls
  ELSE [ls EXCEPT !.expenses = Put(@, user.id, exps),
                  !.incomes = Put(@, user.id, incs),
                  !.settings = Put(@, user.id, sets)]

addIncome(income) ==
  /\ auth.isAuthenticated
  /\ Len(incomes) < MaxItems
  /\ incomes' = <<income>> \o incomes
  /\ localStorage' = [localStorage EXCEPT !.incomes = Put(@, auth.user.id, incomes')]
  /\ UNCHANGED <<auth, expenses, settings, tasks, loginView, probe, settingsView>>

deleteExpense(id) ==
  /\ auth.isAuthenticated
  /\ \E i \in 1..Len(expenses) : expenses[i].id = id
  /\ expenses' = SelectSeq(expenses, LAMBDA e : e.id # id)
  /\ localStorage' = [localStorage EXCEPT !.expenses = Put(@, auth.user.id, expenses')]
  /\ UNCHANGED <<auth, incomes, settings, tasks, loginView, probe, settingsView>>

\* clearAllData removing the two keys and leaving the lists in memory
clearAllData_KeysOnly ==
  /\ auth.isAuthenticated
  /\ localStorage' = [localStorage EXCEPT !.expenses = Put(@, auth.user.id, <<>>),
                                          !.incomes = Put(@, auth.user.id, <<>>)]
  /\ settingsView' = [settingsView EXCEPT !.onClearData = TRUE]
  /\ UNCHANGED <<auth, expenses, incomes, settings, tasks, loginView, probe>>

\* SettingsView.confirmDelete with the dialog confirmed, and App.clearAllData:
\* the two keys are removed, and the persist effects of the render that
\* follows write the empty lists under them
clearAllData ==
  /\ auth.isAuthenticated
  /\ expenses' = <<>>
  /\ incomes' = <<>>
  /\ localStorage' = [localStorage EXCEPT !.expenses = Put(@, auth.user.id, <<>>),
                                          !.incomes = Put(@, auth.user.id, <<>>)]
  /\ settingsView' = [settingsView EXCEPT !.onClearData = TRUE]
  /\ UNCHANGED <<auth, settings, tasks, loginView, probe>>

\* downloadFile: the browser saves the content under the name
downloadFile(content, fileName, exps, incs, sets, password) ==
  [name |-> fileName, content |-> content,
   exported |-> [expenses |-> exps, incomes |-> incs, settings |-> sets],
   password |-> password]

handlePlainExport ==
  /\ auth.isAuthenticated
  /\ settingsView' =
       [settingsView EXCEPT !.downloaded =
          downloadFile(JSONstringifyPretty(exportData(expenses, incomes, settings)),
                       PlainName, expenses, incomes, settings, <<>>),
                            !.onClearData = FALSE]
  /\ UNCHANGED <<localStorage, auth, expenses, incomes, settings, tasks, loginView, probe>>

\* SettingsView.handleEncryptedExport up to the first await of encryptExportData
ExportSubmit(backupPassword) ==
  /\ auth.isAuthenticated
  /\ ~settingsView.isProcessing
  /\ Room
  /\ IF Len(backupPassword) < 8
     THEN /\ settingsView' = [settingsView EXCEPT !.error = MsgShortPassword,
                                                  !.onClearData = FALSE]
          /\ UNCHANGED tasks
     ELSE /\ settingsView' = [settingsView EXCEPT !.error = NoError, !.isProcessing = TRUE,
                                                  !.onClearData = FALSE]
          /\ \E salt \in Salts, iv \in IVs :
               tasks' = tasks (+) SetToBag({[op |-> "export", detached |-> FALSE,
                                             expenses |-> expenses, incomes |-> incomes,
                                             settings |-> settings,
                                             password |-> backupPassword,
                                             salt |-> salt, iv |-> iv]})
  /\ UNCHANGED <<localStorage, auth, expenses, incomes, settings, loginView, probe>>

\* handleEncryptedExport after `await encryptExportData(data, backupPassword)`
ExportFinish(t) ==
  /\ Pending(t)
  /\ t.op = "export"
  /\ LET encrypted == encryptExportData(exportData(t.expenses, t.incomes, t.settings),
                                        t.password, t.salt, t.iv)
         file == downloadFile(encrypted, VaultName, t.expenses, t.incomes, t.settings,
                              t.password)
     IN settingsView' = IF t.detached THEN [settingsView EXCEPT !.downloaded = file]
                        ELSE [settingsView EXCEPT !.downloaded = file,
                                                  !.isProcessing = FALSE]
  /\ tasks' = Without(t)
  /\ UNCHANGED <<localStorage, auth, expenses, incomes, settings, loginView, probe>>

\* SettingsView.handleFileSelect, with the FileReader's onload
handleFileSelect(file) ==
  /\ auth.isAuthenticated
  /\ file.content # <<>>
  /\ settingsView' = [settingsView EXCEPT !.importFileContent = file.content,
                                          !.error = NoError, !.onImport = Null,
                                          !.onClearData = FALSE]
  /\ UNCHANGED <<localStorage, auth, expenses, incomes, settings, tasks, loginView, probe>>

\* App.handleImport and the persist effects of the render that follows
handleImport(data) ==
  LET exps == IF Truthy(Get(data, KeyExpenses)) THEN itemsOf(Get(data, KeyExpenses))
              ELSE expenses
      incs == IF Truthy(Get(data, KeyIncomes)) THEN itemsOf(Get(data, KeyIncomes))
              ELSE incomes
      sets == IF Truthy(Get(data, KeySettings)) THEN spreadSettings(settings, Get(data, KeySettings))
              ELSE settings
  IN /\ expenses' = exps
     /\ incomes' = incs
     /\ settings' = sets
     /\ localStorage' = persisted(localStorage, auth.user, exps, incs, sets)

\* handleImportSubmit calling onImport without asking for confirmation
importOutcome_Unasked(outcome, confirmed, view, detached) ==
  LET data == outcome.value
      shown(v) == IF detached THEN [settingsView EXCEPT !.onImport = v.onImport] ELSE v
  IN IF Is(outcome, "error")
        \/ ~(Truthy(data) /\ (Truthy(Get(data, KeyExpenses)) \/ Truthy(Get(data, KeyIncomes))))
     THEN /\ settingsView' = shown([view EXCEPT !.error = MsgImportFailed,
                                               !.isProcessing = FALSE])
          /\ UNCHANGED <<localStorage, expenses, incomes, settings>>
     ELSE /\ handleImport(data)
          /\ settingsView' = shown([view EXCEPT !.importFileContent = <<>>,
                                               !.isProcessing = FALSE,
                                               !.onImport = data])

\* handleImportSubmit from `if (data && ...)` on, with the parsed or thrown
\* outcome of the try block so far; `view` is the component's state, which
\* a detached handler cannot change
importOutcome(outcome, confirmed, view, detached) ==
  LET data == outcome.value
      shown(v) == IF detached THEN [settingsView EXCEPT !.onImport = v.onImport] ELSE v
  IN IF Is(outcome, "error")
        \/ ~(Truthy(data) /\ (Truthy(Get(data, KeyExpenses)) \/ Truthy(Get(data, KeyIncomes))))
     THEN /\ settingsView' = shown([view EXCEPT !.error = MsgImportFailed,
                                               !.isProcessing = FALSE])
          /\ UNCHANGED <<localStorage, expenses, incomes, settings>>
     ELSE IF confirmed
     THEN /\ handleImport(data)
          /\ settingsView' = shown([view EXCEPT !.importFileContent = <<>>,
                                               !.isProcessing = FALSE,
                                               !.onImport = data])
     ELSE /\ settingsView' = shown([view EXCEPT !.isProcessing = FALSE])
          /\ UNCHANGED <<localStorage, expenses, incomes, settings>>

\* SettingsView.handleImportSubmit: up to `await decryptExportData`, or the
\* whole handler when the file is taken for plain JSON
ImportSubmit(importPassword, confirmed) ==
  /\ auth.isAuthenticated
  /\ settingsView.importFileContent # <<>>
  /\ ~settingsView.isProcessing
  /\ Room
  /\ LET content == settingsView.importFileContent
         started == [settingsView EXCEPT !.error = NoError, !.isProcessing = TRUE,
                                         !.onImport = Null, !.onClearData = FALSE]
     IN IF includes(content, ":")
        THEN /\ settingsView' = started
             /\ tasks' = tasks (+) SetToBag({[op |-> "import", detached |-> FALSE,
                                               content |-> content,
                                               password |-> importPassword]})
             /\ UNCHANGED <<localStorage, expenses, incomes, settings>>
        ELSE /\ importOutcome(JSONparseValue(content), confirmed, started, FALSE)
             /\ UNCHANGED tasks
  /\ UNCHANGED <<auth, loginView, probe>>

\* handleImportSubmit after `await decryptExportData(importFileContent, importPassword)`
ImportFinish(t, confirmed) ==
  /\ Pending(t)
  /\ t.op = "import"
  /\ importOutcome(decryptExportData(t.content, t.password), confirmed, settingsView,
                   t.detached)
  /\ tasks' = Without(t)
  /\ UNCHANGED <<auth, loginView, probe>>

DataPasswords == {VaultPass, ShortPass}

\* One user signs up and then works with the data and with backups
VaultNext ==
  \/ SignupSubmit(EmailPlain, PassOne, PassOne)
  \/ \E t \in BagToSet(tasks) : SignupFinish(t)
  \/ \E t \in BagToSet(tasks) : GenerateKey(t)
  \/ \E t \in BagToSet(tasks) : PersistFinish(t)
  \/ \E expense \in SampleExpenses : addExpense(expense)
  \/ \E expense \in SampleExpenses : deleteExpense(expense.id)
  \/ clearAllData
  \/ handleOptOutAI
  \/ handlePlainExport
  \/ \E backupPassword \in DataPasswords : ExportSubmit(backupPassword)
  \/ \E t \in BagToSet(tasks) : ExportFinish(t)
  \/ handleFileSelect(settingsView.downloaded)
  \/ \E importPassword \in DataPasswords, confirmed \in BOOLEAN :
       ImportSubmit(importPassword, confirmed)
  \/ \E t \in BagToSet(tasks), confirmed \in BOOLEAN : ImportFinish(t, confirmed)
  \/ \E t \in BagToSet(tasks) : LoadSessionFinish(t)
  \/ AppLoad

VaultSpec == Init /\ [][VaultNext]_vars

\* a backup made elsewhere: one expense, no incomes, the default settings
SampleVault ==
  LET exps == <<CHOOSE e \in SampleExpenses : TRUE>>
  IN downloadFile(encryptExportData(exportData(exps, <<>>, DefaultSettings), VaultPass,
                                    CHOOSE salt \in Salts : TRUE, CHOOSE iv \in IVs : TRUE),
                  VaultName, exps, <<>>, DefaultSettings, VaultPass)

\* the same backup with the last character of its ciphertext changed
TamperedVault ==
  [name |-> VaultName,
   content |-> [SampleVault.content EXCEPT ![Len(SampleVault.content)] = "g"]]

\* a backup cut after its second field, and a text that is not JSON
TruncatedFile == [name |-> VaultName, content |-> <<"0", "7", ":", "0", "a">>]
TextFile == [name |-> "notes.txt", content |-> <<"a", "b", "c">>]

\* a backup of { settings } alone
SettingsVault ==
  [name |-> VaultName,
   content |-> encryptExportData(JObj(<<Member(KeySettings, settingsJson(DefaultSettings))>>),
                                 VaultPass, CHOOSE salt \in Salts : TRUE,
                                 CHOOSE iv \in IVs : TRUE)]

\* a backup written by other means than the two forms: an expense of amount 0
UnvalidatedVault ==
  [name |-> VaultName,
   content |-> encryptExportData(exportData(<<[id |-> "e1", amount |-> 0]>>, <<>>,
                                            DefaultSettings),
                                 VaultPass, CHOOSE salt \in Salts : TRUE,
                                 CHOOSE iv \in IVs : TRUE)]

ImportFiles ==
  {SampleVault, ForeignFile, TamperedVault, TruncatedFile, TextFile, SettingsVault,
   UnvalidatedVault}

\* Signup, login, logout and reload, with purge and the import of a backup
DataNext ==
  \/ \E t \in BagToSet(tasks) : GenerateKey(t)
  \/ \E t \in BagToSet(tasks) : LoadSessionFinish(t)
  \/ \E t \in BagToSet(tasks) : PersistFinish(t)
  \/ handleLogout
  \/ \E income \in SampleIncomes : addIncome(income)
  \/ clearAllData
  \/ LoginSubmit(EmailUpper, PassOne)
  \/ \E t \in BagToSet(tasks) : LoginFinish(t)
  \/ \E email \in {EmailPlain, EmailUpper, EmailOther} : SignupSubmit(email, PassOne, PassOne)
  \/ \E t \in BagToSet(tasks) : SignupFinish(t)
  \/ \E file \in {SampleVault, ForeignFile} : handleFileSelect(file)
  \/ \E confirmed \in BOOLEAN : ImportSubmit(VaultPass, confirmed)
  \/ \E t \in BagToSet(tasks), confirmed \in BOOLEAN : ImportFinish(t, confirmed)
  \/ AppLoad

DataSpec == Init /\ [][DataNext]_vars

\* C11: a record of the registry stays, at its place and unchanged, through
\* signup, login, logout, import, purge and reload; the registry changes only
\* by a signup appending one record at the end
C11_AppendOnly ==
  [][/\ Len(localStorage'.users) >= Len(Users)
     /\ \A i \in 1..Len(Users) : localStorage'.users[i] = Users[i]
     /\ (localStorage'.users # Users)
        => (/\ Len(localStorage'.users) = Len(Users) + 1
            /\ \E t \in TaskSet : t.op = "signup" /\ SignupFinish(t))]_vars

\* two records, after an import by the second user
C11_Witness ==
  /\ Len(Users) = 2
  /\ auth.isAuthenticated
  /\ auth.user.id = Users[2].id
  /\ settingsView.onImport # Null
  /\ Users[1].email = EmailPlain

\* the file chosen for import is the plain export the browser saved last
PlainChosen ==
  /\ settingsView.downloaded.name = PlainName
  /\ settingsView.importFileContent = settingsView.downloaded.content

\* C18: a plain export chosen for import is parsed as JSON and not passed
\* to decryptExportData; the import succeeds whatever the password field
\* holds, and when confirmed hands the exported object to onImport
C18_PlainImport ==
  [][\A pw \in DataPasswords, confirmed \in BOOLEAN :
       (ImportSubmit(pw, confirmed) /\ PlainChosen)
       => LET x == settingsView.downloaded.exported
          IN /\ tasks' = tasks
             /\ settingsView'.error = NoError
             /\ confirmed
                => settingsView'.onImport = exportData(x.expenses, x.incomes, x.settings)]_vars

MaxTyped == 3      \* characters typed before the padding

\* "-" is in none of the rules' character classes
TypedChars == {"A", "a", "1", "!", "-"}

Paddings ==
  {<<>>,
   <<"b", "b", "b", "b", "b", "b", "b", "b">>,
   <<"b", "b", "b", "b", "b", "b", "b", "b", "b">>,
   <<"7", "7", "7", "7", "7", "7", "7", "7", "7">>}

PasswordSamples ==
  {typed \o padding :
     typed \in UNION {[1..n -> TypedChars] : n \in 0..MaxTyped}, padding \in Paddings}

ProbeStrength(password) ==
  /\ probe.op = "none"
  /\ probe' = [op |-> "strength", password |-> password,
               result |-> validatePasswordStrength(password)]
  /\ UNCHANGED <<localStorage, auth, expenses, incomes, settings, tasks, loginView,
                 settingsView>>

StrengthNext == \E password \in PasswordSamples : ProbeStrength(password)

StrengthSpec == Init /\ [][StrengthNext]_vars

\* the five rules of the policy, and the message of each
RuleHolds(password) ==
  << Len(password) >= 12,
     \E i \in 1..Len(password) : password[i] \in {"A", "B", "C", "D", "E", "F", "P", "X"},
     \E i \in 1..Len(password) : IsLower(password[i]),
     \E i \in 1..Len(password) : password[i] \in {"0", "1", "2", "3", "4", "5", "6", "7", "8", "9"},
     \E i \in 1..Len(password) : IsSpecial(password[i]) >>
RuleMessage == << ErrLength, ErrUpper, ErrLower, ErrDigit, ErrSpecial >>
AllFiveRules(password) == \A k \in 1..5 : RuleHolds(password)[k]

\* C20: isValid exactly when all five rules hold; errors has exactly one
\* entry per unmet rule; score is the number of satisfied rules minus one
\* clamped to 0..4; so isValid exactly when score = 4
C20_StrengthEvaluation ==
  probe.op = "strength" =>
    LET r == probe.result
        met == RuleHolds(probe.password)
        n == Cardinality({k \in 1..5 : met[k]})
        clamped == IF n - 1 > 4 THEN 4 ELSE IF n - 1 < 0 THEN 0 ELSE n - 1
    IN /\ r.isValid <=> (\A k \in 1..5 : met[k])
       /\ Len(r.errors) = 5 - n
       /\ \A k \in 1..5 :
            ~met[k] <=> (\E i \in 1..Len(r.errors) : r.errors[i] = RuleMessage[k])
       /\ r.score = clamped
       /\ r.score \in 0..4
       /\ r.isValid <=> r.score = 4

C20_Witness ==
  /\ probe.op = "strength"
  /\ Len(probe.password) = 12
  /\ probe.result.isValid
  /\ probe.result.score = 4

\* C12: a signup whose password fails a strength rule or differs from the
\* confirmation starts nothing, adds no record and does not authenticate;
\* a record is added only by a signup whose password meets all five rules
C12_RegistrationGate ==
  /\ [](\A t \in TaskSet : t.op = "signup" => AllFiveRules(t.password))
  /\ [][/\ \A e \in SignupEmails, p \in SignupPasswords, c \in SignupPasswords :
            (SignupSubmit(e, p, c) /\ (p # c \/ ~AllFiveRules(p)))
            => (/\ tasks' = tasks
                /\ localStorage' = localStorage
                /\ auth' = auth
                /\ loginView'.error # NoError
                /\ loginView'.onLogin = Null)
        /\ (localStorage'.users # Users)
           => (\E t \in TaskSet :
                 /\ t.op = "signup" /\ SignupFinish(t)
                 /\ AllFiveRules(t.password)
                 /\ Len(localStorage'.users) = Len(Users) + 1)]_vars

C12_Witness ==
  /\ loginView.view = "SIGNUP"
  /\ loginView.error \in {MsgWeak, MsgMismatch}
  /\ ~auth.isAuthenticated
  /\ Users = <<>>

(***************************************************************************)
(* The data of a user across logout, login and purge                       *)
(***************************************************************************)
\* the step makes another user the authenticated one
Switched == auth'.isAuthenticated /\ auth'.user # auth.user

\* C25: when a user becomes the authenticated one, the settings in memory
\* and those stored under the user's key are the ones stored for that user
\* before, or the defaults when none were stored
C25_SettingsIsolated ==
  [][Switched
     => LET id == auth'.user.id
            own == StoredOr(localStorage.settings, id, DefaultSettings)
        IN /\ settings' = own
           /\ localStorage'.settings[id] = own]_vars

\* C26: when a user becomes the authenticated one, the lists stored under
\* the user's keys are what was stored there before (empty when nothing
\* was), and the lists in memory equal them
C26_LoginKeepsRecords ==
  [][Switched
     => LET id == auth'.user.id
            exps == StoredOr(localStorage.expenses, id, <<>>)
            incs == StoredOr(localStorage.incomes, id, <<>>)
        IN /\ localStorage'.expenses[id] = exps
           /\ localStorage'.incomes[id] = incs
           /\ expenses' = exps
           /\ incomes' = incs]_vars

\* the first user, who has an income stored, is back after a second user,
\* who has none, was registered in between
C26_Witness ==
  /\ Len(Users) = 2
  /\ auth.isAuthenticated
  /\ auth.user.id = Users[1].id
  /\ loginView.onLogin # Null
  /\ incomes # <<>>
  /\ incomes = localStorage.incomes[Users[1].id]
  /\ localStorage.incomes[Users[2].id] = <<>>

\* C27: a purge leaves the lists in memory empty and no expense and no
\* income stored for the user; the user's settings, the registry, the
\* signing key, the token and the auth state are as before
C27_Purge ==
  [][clearAllData
     => LET id == auth.user.id
        IN /\ expenses' = <<>>
           /\ incomes' = <<>>
           /\ StoredOr(localStorage'.expenses, id, <<>>) = <<>>
           /\ StoredOr(localStorage'.incomes, id, <<>>) = <<>>
           /\ settings' = settings
           /\ localStorage'.settings = localStorage.settings
           /\ localStorage'.users = localStorage.users
           /\ localStorage'.key = localStorage.key
           /\ localStorage'.token = localStorage.token
           /\ auth' = auth
           /\ auth'.isAuthenticated]_vars

\* after a purge by the second user, with the token stored; the income of
\* the first user is still stored
C27_Witness ==
  /\ settingsView.onClearData
  /\ auth.isAuthenticated
  /\ Len(Users) = 2
  /\ auth.user.id = Users[2].id
  /\ localStorage.token # <<>>
  /\ expenses = <<>>
  /\ incomes = <<>>
  /\ localStorage.incomes[Users[2].id] = <<>>
  /\ localStorage.incomes[Users[1].id] # <<>>

(***************************************************************************)
(* Imports that fail or are declined, and the amounts of the records       *)
(***************************************************************************)
\* One user records an income and imports files of every kind
ImportNext ==
  \/ SignupSubmit(EmailPlain, PassOne, PassOne)
  \/ \E t \in BagToSet(tasks) : SignupFinish(t)
  \/ \E t \in BagToSet(tasks) : GenerateKey(t)
  \/ \E t \in BagToSet(tasks) : PersistFinish(t)
  \/ \E t \in BagToSet(tasks) : LoadSessionFinish(t)
  \/ \E income \in SampleIncomes : addIncome(income)
  \/ \E file \in ImportFiles : handleFileSelect(file)
  \/ \E importPassword \in DataPasswords, confirmed \in BOOLEAN :
       ImportSubmit(importPassword, confirmed)
  \/ \E t \in BagToSet(tasks), confirmed \in BOOLEAN : ImportFinish(t, confirmed)
  \/ AppLoad

ImportSpec == Init /\ [][ImportNext]_vars

\* the outcome of the try block is an object with expenses or incomes
Importable(outcome) ==
  /\ ~Is(outcome, "error")
  /\ Truthy(outcome.value)
  /\ Truthy(Get(outcome.value, KeyExpenses)) \/ Truthy(Get(outcome.value, KeyIncomes))

\* what a failed (or, with an importable outcome, declined) attempt may do
\* to the state, seen from the component state `view` it started from
NothingImported(outcome, view, detached) ==
  /\ settingsView'.onImport = Null
  /\ UNCHANGED <<expenses, incomes, settings, localStorage, auth>>
  /\ ~detached
     => settingsView' = [view EXCEPT !.isProcessing = FALSE,
                                    !.error = IF Importable(outcome) THEN @
                                              ELSE MsgImportFailed]

\* C24: an import that fails (wrong password, tampered, cut or foreign file,
\* text that is not JSON, a payload with neither expenses nor incomes) or is
\* declined does not call onImport and leaves the lists and settings in
\* memory and the storage as they were; the component shows the error and
\* isProcessing is false again
C24_FailedImportChangesNothing ==
  [][/\ \A t \in TaskSet, confirmed \in BOOLEAN :
          LET outcome == decryptExportData(t.content, t.password)
          IN (t.op = "import" /\ tasks' = Without(t) /\ ImportFinish(t, confirmed)
                /\ (~confirmed \/ ~Importable(outcome)))
             => NothingImported(outcome, settingsView, t.detached)
     /\ \A pw \in DataPasswords, confirmed \in BOOLEAN :
          LET content == settingsView.importFileContent
              outcome == JSONparseValue(content)
          IN (content # <<>> /\ ~includes(content, ":") /\ tasks' = tasks
                /\ ImportSubmit(pw, confirmed)
                /\ (~confirmed \/ ~Importable(outcome)))
             => NothingImported(outcome,
                                [settingsView EXCEPT !.error = NoError,
                                                     !.onClearData = FALSE],
                                FALSE)]_vars

\* the backup was chosen, the attempt failed, and the income is still there
C24_Witness ==
  /\ settingsView.error = MsgImportFailed
  /\ ~settingsView.isProcessing
  /\ settingsView.importFileContent = SampleVault.content
  /\ settingsView.onImport = Null
  /\ incomes # <<>>
  /\ expenses = <<>>
  /\ localStorage.incomes[auth.user.id] = incomes

\* security.ts validateAmount, on the numbers the model holds
validateAmount(amount) == amount \in Int /\ amount > 0 /\ amount < 1000000000

\* C29: every expense and every income in the app state has an amount that
\* satisfies validateAmount
C29_AmountInvariant ==
  /\ \A i \in 1..Len(expenses) : validateAmount(expenses[i].amount)
  /\ \A i \in 1..Len(incomes) : validateAmount(incomes[i].amount)

(***************************************************************************)
(* Progress of the load: React runs the mount effects of a constructed     *)
(* App, and the Web Crypto promises that loadSession awaits are settled.   *)
(***************************************************************************)
\* the mount effects of the App that Init constructed
Mount == auth.isLoading /\ tasks = EmptyBag /\ AppLoad

\* the page is reloaded after its load has finished (a reload during the
\* load starts another load, which is then the one to follow)
Reload == ~auth.isLoading /\ AppLoad

\* One user signs up, logs out and reloads; tokens are also put into
\* storage from outside
LoadNext ==
  \/ Mount
  \/ Reload
  \/ SignupSubmit(EmailPlain, PassOne, PassOne)
  \/ \E t \in BagToSet(tasks) : SignupFinish(t)
  \/ \E t \in BagToSet(tasks) : GenerateKey(t)
  \/ \E t \in BagToSet(tasks) : PersistFinish(t)
  \/ \E t \in BagToSet(tasks) : LoadSessionFinish(t)
  \/ handleLogout
  \/ StorageEdited

\* loadSession is suspended with everything it awaits in hand: this is
\* when LoadSessionFinish is enabled, and a LoadSessionFinish step ends it
LoadAwaited ==
  \E t \in BagToSet(tasks) : t.op = "loadSession" /\ (t.key # <<>> \/ ~reachesKey(t.signed))

\* Weak fairness of the mount effects, of key generation and of
\* LoadSessionFinish; the last is written with its enabling condition
LoadSpec ==
  /\ Init /\ [][LoadNext]_vars
  /\ WF_vars(Mount)
  /\ WF_vars(\E t \in BagToSet(tasks) : GenerateKey(t))
  /\ []<>~LoadAwaited

\* C30: auth.isLoading always becomes false, whatever token and key the
\* load finds, and whenever it is false the app is authenticated exactly
\* when auth.user is not null
C30_LoadFinishes ==
  /\ auth.isLoading ~> ~auth.isLoading
  /\ [](~auth.isLoading => (auth.isAuthenticated <=> auth.user # Null))

\* a load found a token and no signing key: it generated one, rejected the
\* token and finished unauthenticated
C30_Witness ==
  /\ ~auth.isLoading
  /\ ~auth.isAuthenticated
  /\ auth.user = Null
  /\ Len(Users) = 0
  /\ localStorage.key # <<>>
  /\ tasks = EmptyBag

(***************************************************************************)
(* signSession and verifySession called while other calls are suspended    *)
(* in getSystemHmacKey                                                     *)
(***************************************************************************)
\* signSession(userData) up to the first await of getSystemHmacKey
CallSign(userData) ==
  /\ BagCardinality(tasks) < MaxCalls
  /\ tasks' = tasks (+) SetToBag({[op |-> "sign", user |-> userData,
                                  key |-> keyAtCall(localStorage)]})
  /\ UNCHANGED <<localStorage, auth, expenses, incomes, settings, loginView, probe,
                 settingsView>>

\* signSession after `await getSystemHmacKey()`: the token is returned
SignReturn(t) ==
  /\ Pending(t)
  /\ t.op = "sign"
  /\ t.key # <<>>
  /\ probe' = [op |-> "sign", user |-> t.user, token |-> signSessionWith(t.key, t.user),
               signKey |-> t.key, input |-> <<>>, verifyKey |-> <<>>, result |-> Null]
  /\ tasks' = Without(t)
  /\ UNCHANGED <<localStorage, auth, expenses, incomes, settings, loginView, settingsView>>

\* verifySession(signedSession) up to the first await of getSystemHmacKey
CallVerify(signedSession) ==
  /\ BagCardinality(tasks) < MaxCalls
  /\ tasks' = tasks (+) SetToBag({[op |-> "verify", signed |-> signedSession,
                                  key |-> IF reachesKey(signedSession)
                                          THEN keyAtCall(localStorage) ELSE <<>>]})
  /\ UNCHANGED <<localStorage, auth, expenses, incomes, settings, loginView, probe,
                 settingsView>>

\* verifySession after the await: the result is returned
VerifyReturn(t) ==
  /\ Pending(t)
  /\ t.op = "verify"
  /\ t.key # <<>> \/ ~reachesKey(t.signed)
  /\ probe' = [probe EXCEPT !.op = "verify", !.input = t.signed, !.verifyKey = t.key,
                            !.result = verifySessionWith(t.key, t.signed)]
  /\ tasks' = Without(t)
  /\ UNCHANGED <<localStorage, auth, expenses, incomes, settings, loginView, settingsView>>

KeyNext ==
  \/ \E userData \in ProbeUsers : CallSign(userData)
  \/ \E t \in BagToSet(tasks) : GenerateKey(t)
  \/ \E t \in BagToSet(tasks) : SignReturn(t)
  \/ probe.op = "sign" /\ CallVerify(probe.token)
  \/ \E t \in BagToSet(tasks) : VerifyReturn(t)

KeySpec == Init /\ [][KeyNext]_vars

\* C21: a signing key that is stored is never replaced by another key, and
\* the last token signSession returned carries a valid signature under the
\* key that is stored once every call has returned
C21_KeyCreatedOnce ==
  /\ [][localStorage.key # <<>> => localStorage'.key = localStorage.key]_vars
  /\ []((probe.op = "sign" /\ tasks = EmptyBag)
          => probe.token = signSessionWith(hexToBuf(localStorage.key), probe.user))

(***************************************************************************)
(* A second tab of the application on the same localStorage.  The tab      *)
(* stays on its signup form until its handleSignup has run; its React      *)
(* state starts from the initial values, and what it writes to the shared  *)
(* storage is all that is kept of it.                                      *)
(***************************************************************************)
\* the second tab's form is idle, and it has room for one function in
\* flight beside those of the first tab
TabIdle ==
  /\ \A t \in BagToSet(tasks) : t.op # "tabSignup"
  /\ BagCardinality(tasks) <= MaxTasks

\* Login.handleSignup in the second tab, up to `await hashPassword(password)`
TabSignupSubmit(email, password, confirmPassword) ==
  /\ TabIdle
  /\ password = confirmPassword
  /\ ~isEmailRegistered(localStorage.users, email)
  /\ validatePasswordStrength(password).isValid
  /\ \E salt \in Salts :
       tasks' = tasks (+) SetToBag({[op |-> "tabSignup", email |-> email,
                                     password |-> password, salt |-> salt]})
  /\ UNCHANGED <<localStorage, auth, expenses, incomes, settings, loginView, probe,
                 settingsView>>

\* the second tab after the await: registerUserLocally, then onLogin with
\* the effects of that tab's App
TabSignupFinish(t) ==
  /\ Pending(t)
  /\ t.op = "tabSignup"
  /\ LET users == registerUserLocally(localStorage.users, t.email,
                                      hashPasswordWith(t.password, t.salt))
         user == [id |-> users[Len(users)].id, email |-> t.email, authProvider |-> Local]
         c == commitUser([localStorage EXCEPT !.users = users], user,
                         <<>>, <<>>, DefaultSettings)
     IN /\ localStorage' = c.ls
        /\ tasks' = Without(t) (+) SetToBag({persistTask(localStorage, user)})
  /\ UNCHANGED <<auth, expenses, incomes, settings, loginView, probe, settingsView>>

TabEmails == {EmailPlain, EmailUpper}

TabNext ==
  \/ AppLoad
  \/ \E t \in BagToSet(tasks) : LoadSessionFinish(t)
  \/ \E email \in TabEmails : SignupSubmit(email, PassOne, PassOne)
  \/ \E t \in BagToSet(tasks) : SignupFinish(t)
  \/ \E email \in TabEmails : TabSignupSubmit(email, PassOne, PassOne)
  \/ \E t \in BagToSet(tasks) : TabSignupFinish(t)
  \/ \E t \in BagToSet(tasks) : GenerateKey(t)
  \/ \E t \in BagToSet(tasks) : PersistFinish(t)
  \/ handleLogout

TabSpec == Init /\ [][TabNext]_vars

\* C23: when signups for one e-mail overlap in two tabs on the same storage,
\* the stored user list holds at most one record per e-mail, ignoring case
C23_OverlappingSignups ==
  \A i, j \in 1..Len(Users) :
    (i # j) => toLowerCase(Users[i].email) # toLowerCase(Users[j].email)

(***************************************************************************)
(* The entry forms, the settings toggles and the screens that call the AI  *)
(* text-generation service.  A request is an async call in flight: the     *)
(* argument of ai.models.generateContent, with each template literal kept  *)
(* as the sequence of its fixed pieces and interpolated values.            *)
(***************************************************************************)
Now == [year |-> 2026, month |-> 11]
LastYear == [year |-> 2025, month |-> 11]
\* a date string that new Date() cannot parse: its getTime() is NaN
InvalidDate == [year |-> 0, month |-> 0]
DescTea == <<"t", "e", "a">>
DescBus == <<"b", "&", "s">>
DescShort == <<"t", " ">>
Descriptions == {DescTea, DescBus}
GeminiModel == "gemini-3-flash-preview"

\* one character of sanitizeString's replace chain
Entity(c) ==
  CASE c = "&" -> <<"&", "a", "m", "p", ";">>
    [] c = "<" -> <<"&", "l", "t", ";">>
    [] c = ">" -> <<"&", "g", "t", ";">>
    [] c = "\"" -> <<"&", "q", "u", "o", "t", ";">>
    [] c = "'" -> <<"&", "#", "0", "3", "9", ";">>
    [] OTHER -> <<c>>

RECURSIVE replaceEntities(_)
replaceEntities(input) ==
  IF input = <<>> THEN <<>> ELSE Entity(Head(input)) \o replaceEntities(Tail(input))

sanitizeString(input) ==
  LET replaced == replaceEntities(input)
  IN SubSeq(replaced, 1, IF Len(replaced) < 100 THEN Len(replaced) ELSE 100)

validateDate(dateStr) == dateStr # InvalidDate

\* !description.trim()
IsBlank(description) == \A k \in 1..Len(description) : IsWhitespace(description[k])

\* AddExpense.handleSubmit, with App.addExpense and the persist effect
AddExpenseSubmit(amount, description, category, date) ==
  /\ auth.isAuthenticated
  /\ Len(expenses) < MaxRecorded
  /\ IF ~validateAmount(amount) \/ IsBlank(description) \/ ~validateDate(date)
     THEN UNCHANGED <<expenses, localStorage>>
     ELSE LET newExpense == [id |-> Len(expenses) + 1, amount |-> amount,
                             description |-> sanitizeString(description),
                             category |-> category, date |-> date,
                             createdAt |-> Len(expenses) + 1]
          IN /\ expenses' = <<newExpense>> \o expenses
             /\ localStorage' = [localStorage EXCEPT
                                   !.expenses = Put(@, auth.user.id, expenses')]
  /\ UNCHANGED <<auth, incomes, settings, tasks, loginView, probe, settingsView>>

\* AddIncome.handleSubmit, with App.addIncome and the persist effect
AddIncomeSubmit(amount, description, category, frequency, date) ==
  /\ auth.isAuthenticated
  /\ Len(incomes) < MaxItems
  /\ IF ~validateAmount(amount) \/ IsBlank(description) \/ ~validateDate(date)
     THEN UNCHANGED <<incomes, localStorage>>
     ELSE LET newIncome == [id |-> Len(incomes) + 1, amount |-> amount,
                            description |-> sanitizeString(description),
                            category |-> category, frequency |-> frequency,
                            date |-> date, createdAt |-> Len(incomes) + 1]
          IN /\ incomes' = <<newIncome>> \o incomes
             /\ localStorage' = [localStorage EXCEPT
                                   !.incomes = Put(@, auth.user.id, incomes')]
  /\ UNCHANGED <<auth, expenses, settings, tasks, loginView, probe, settingsView>>

\* SettingsView toggles: onUpdate is setSettings, then the persist effect
updateSettings(newSettings) ==
  /\ auth.isAuthenticated
  /\ settings' = newSettings
  /\ localStorage' = [localStorage EXCEPT !.settings = Put(@, auth.user.id, settings')]
  /\ UNCHANGED <<auth, expenses, incomes, tasks, loginView, probe, settingsView>>

toggleAIFeatures ==
  updateSettings([settings EXCEPT !.isAIFeaturesEnabled = ~settings.isAIFeaturesEnabled])

toggleMLPredictions ==
  updateSettings([settings EXCEPT !.isMLPredictionsEnabled = ~settings.isMLPredictionsEnabled])

RECURSIVE Total(_)
Total(records) ==
  IF records = <<>> THEN 0 ELSE Head(records).amount + Total(Tail(records))

Indices(seq) == [k \in 1..Len(seq) |-> k]

\* the categories object of generateFinancialReport as Object.entries lists
\* it: one entry per category, in the order of first appearance
categoryEntries(exps) ==
  LET first(k) == \A j \in 1..(k - 1) : exps[j].category # exps[k].category
      firsts == SelectSeq(Indices(exps), first)
  IN [n \in 1..Len(firsts) |->
        LET c == exps[firsts[n]].category
            same(e) == e.category = c
        IN [category |-> c, amount |-> Total(SelectSeq(exps, same))]]

\* .sort(([, a], [, b]) => b - a): stable, larger amounts first
sortByAmount(entries) ==
  LET before(j, n) == \/ entries[j].amount > entries[n].amount
                      \/ entries[j].amount = entries[n].amount /\ j < n
      rank(n) == Cardinality({j \in DOMAIN entries : before(j, n)}) + 1
  IN [r \in DOMAIN entries |-> entries[CHOOSE n \in DOMAIN entries : rank(n) = r]]

slice(seq, n) == SubSeq(seq, 1, IF Len(seq) < n THEN Len(seq) ELSE n)

suggestCategoryRequest(description) ==
  [model |-> GeminiModel,
   contents |-> <<"Suggest a single financial category from this list for the description: \"",
                  description,
                  "\". List: Food & Dining, Transport, Housing, Entertainment, Shopping, Health, Education, Bills, Others. Return only the category name.">>]

generateFinancialReportRequest(period, exps, incs, currency) ==
  LET totalIncome == Total(incs)
      totalExpenses == Total(exps)
      sortedCategories == slice(sortByAmount(categoryEntries(exps)), 3)
      incomeSummary == [k \in 1..Len(incs) |->
                          [cat |-> incs[k].category, freq |-> incs[k].frequency,
                           amt |-> incs[k].amount]]
  IN [model |-> GeminiModel,
      contents |-> <<"Create a financial report for ", period,
                     "Total Income: ", currency, totalIncome,
                     "Total Expenses: ", currency, totalExpenses,
                     "Top Spending Categories: ", sortedCategories,
                     "Income Sources (Categorized): ", incomeSummary>>]

generateInvestmentDSSRequest(totalIncome, totalExpenses, currency) ==
  LET surplus == totalIncome - totalExpenses
  IN [model |-> GeminiModel,
      contents |-> <<"Monthly Income Total: ", currency, totalIncome,
                     "Monthly Expenses Total: ", currency, totalExpenses,
                     "Monthly Surplus Total: ", currency, surplus>>]

generateSpendingInsightsRequest(exps, monthlyBudget) ==
  LET recentExpenses == [k \in 1..Len(slice(exps, 20)) |->
                           [amount |-> exps[k].amount, category |-> exps[k].category,
                            date |-> exps[k].date]]
  IN [model |-> GeminiModel,
      contents |-> <<"Analyze these categorized spending patterns and the budget of ",
                     monthlyBudget, "Data: ", recentExpenses>>]

inMonth(d) == d.month = Now.month /\ d.year = Now.year
inYear(d) == d.year = Now.year
dated(records, in(_)) == LET keep(r) == in(r.date) IN SelectSeq(records, keep)

\* ReportsView.reportPeriod
reportPeriod(view) ==
  IF view = "Monthly" THEN <<Now.month, Now.year>> ELSE <<Now.year, " Annual">>

\* what a screen reads when its effect runs: the form's description, the
\* props of the route, and the view chosen in ReportsView
ScreenInput(description, view) ==
  [description |-> description, expenses |-> expenses, incomes |-> incomes,
   settings |-> settings, view |-> view]

\* the request each screen's effect passes to the service
requestOf(fn, input) ==
  CASE fn = "suggestCategory" -> suggestCategoryRequest(input.description)
    [] fn = "generateSpendingInsights" ->
         generateSpendingInsightsRequest(input.expenses, input.settings.monthlyBudget)
    [] fn = "generateFinancialReport" ->
         IF input.view = "Monthly"
         THEN generateFinancialReportRequest(reportPeriod(input.view),
                dated(input.expenses, inMonth), dated(input.incomes, inMonth),
                input.settings.currency)
         ELSE generateFinancialReportRequest(reportPeriod(input.view),
                dated(input.expenses, inYear), dated(input.incomes, inYear),
                input.settings.currency)
    [] fn = "generateInvestmentDSS" ->
         generateInvestmentDSSRequest(Total(dated(input.incomes, inMonth)),
                                      Total(dated(input.expenses, inMonth)),
                                      input.settings.currency)

\* `await ai.models.generateContent(...)` starts
generateContent(fn, input) ==
  /\ Room
  /\ tasks' = tasks (+) SetToBag({[op |-> "ai", fn |-> fn, input |-> input,
                                  request |-> requestOf(fn, input)]})
  /\ UNCHANGED <<localStorage, auth, expenses, incomes, settings, loginView, probe,
                 settingsView>>

\* AddExpense: the description is typed and the 800 ms timer fires
SuggestionEffect(description) ==
  /\ auth.isAuthenticated
  /\ ~(~settings.isMLPredictionsEnabled \/ Len(description) < 3)
  /\ generateContent("suggestCategory", ScreenInput(description, "Monthly"))

\* Analytics: fetch AI insights
InsightsEffect ==
  /\ auth.isAuthenticated
  /\ ~(Len(expenses) < 3)
  /\ generateContent("generateSpendingInsights", ScreenInput(<<>>, "Monthly"))

\* ReportsView: fetchReport
ReportEffect(view) ==
  /\ auth.isAuthenticated
  /\ Len(expenses) > 0 \/ Len(incomes) > 0
  /\ generateContent("generateFinancialReport", ScreenInput(<<>>, view))

\* BudgetSuggestions: fetchDSS
DSSEffect ==
  /\ auth.isAuthenticated
  /\ Total(dated(incomes, inMonth)) > 0 \/ Total(dated(expenses, inMonth)) > 0
  /\ generateContent("generateInvestmentDSS", ScreenInput(<<>>, "Monthly"))

\* the service answers or fails; the caller keeps the result in the state
\* of its own screen
AiResponse(t) ==
  /\ Pending(t)
  /\ t.op = "ai"
  /\ tasks' = Without(t)
  /\ UNCHANGED <<localStorage, auth, expenses, incomes, settings, loginView, probe,
                 settingsView>>

\* what the user submits in the AddExpense form: two valid entries, and
\* one each with an amount, a description and a date the form rejects
ExpenseForms ==
  {[amount |-> 250, description |-> DescTea, category |-> "Food & Dining", date |-> Now],
   [amount |-> 250, description |-> DescBus, category |-> "Transport", date |-> Now],
   [amount |-> 0, description |-> DescTea, category |-> "Transport", date |-> Now],
   [amount |-> 250, description |-> <<" ">>, category |-> "Transport", date |-> Now],
   [amount |-> 250, description |-> DescTea, category |-> "Transport",
    date |-> InvalidDate]}

AiNext ==
  \/ Mount
  \/ SignupSubmit(EmailPlain, PassOne, PassOne)
  \/ \E t \in BagToSet(tasks) : SignupFinish(t)
  \/ \E t \in BagToSet(tasks) : GenerateKey(t)
  \/ \E t \in BagToSet(tasks) : PersistFinish(t)
  \/ \E form \in ExpenseForms :
       AddExpenseSubmit(form.amount, form.description, form.category, form.date)
  \/ \E date \in {Now, LastYear} :
       AddIncomeSubmit(900, DescTea, "Salary", "Monthly", date)
  \/ handleOptOutAI
  \/ toggleAIFeatures
  \/ toggleMLPredictions
  \/ \E description \in Descriptions \cup {DescShort} : SuggestionEffect(description)
  \/ InsightsEffect
  \/ \E view \in {"Monthly", "Annual"} : ReportEffect(view)
  \/ DSSEffect
  \/ \E t \in BagToSet(tasks) : AiResponse(t)

AiSpec == Init /\ [][AiNext]_vars

AiRequests == {t \in BagToSet(tasks) : t.op = "ai"}

\* the input of a screen with every description replaced by d
Redescribed(input, d) ==
  [input EXCEPT !.description = d,
                !.expenses = [k \in DOMAIN @ |-> [@[k] EXCEPT !.description = d]],
                !.incomes = [k \in DOMAIN @ |-> [@[k] EXCEPT !.description = d]]]

\* C22: a request to the AI service does not depend on a description: the
\* same screen with other descriptions, all else equal, sends the same request
C22_NoRawDescriptions ==
  \A t \in AiRequests, d \in Descriptions :
    requestOf(t.fn, Redescribed(t.input, d)) = t.request

\* C28: while settings.isAIFeaturesEnabled is false no screen starts a
\* request to the AI service
C28_OptOutHonoured ==
  [][\A t \in BagToSet(tasks') :
       (t.op = "ai" /\ CopiesIn(t, tasks') > CopiesIn(t, tasks))
         => settings.isAIFeaturesEnabled]_vars
====
